---- MODULE Spec2Model ----
(***************************************************************************)
(* Task management service: the field validators (app/validation), the     *)
(* task table (app/models/database.py) and the mutation operations of      *)
(* TaskService (app/services/task_service.py).                             *)
(*                                                                         *)
(* Representation.  A Python str is a sequence of one-character strings.   *)
(* An Optional value is None (the empty tuple) or Some(x) (the one-element *)
(* tuple <<x>>).  A datetime is a natural number read from the clock now.  *)
(* A row of the tasks table is a record with the nine columns of Task.     *)
(* A TaskUpdate payload is the dict model_dump(exclude_unset=True) gives:  *)
(* a function from the names of the fields that were set to their values.  *)
(***************************************************************************)
EXTENDS Integers, Sequences, FiniteSets, TLC

VARIABLES
    store,      \* the rows of the tasks table
    now,        \* the value datetime.utcnow() returns
    last,       \* the call being answered: its arguments and its outcome
    probe,      \* the last direct call of a validator: function, argument, result
    trail,      \* history: the pairs <<a, b>> of statuses such that the task
                \* followed had status a and, after later updates, status b
    touched,    \* history: the ids of the stored tasks on which an update or a
                \* bulk update has succeeded since they were created
    sessions,   \* for each concurrent caller of update_task, how far its call
                \* has got and the row its Session has loaded
    database    \* the database file as MigrationManager sees it: the tables
                \* and indexes that exist, the versions in table migrations,
                \* the last call of migrate or rollback and its results list

vars == <<store, now, last, probe, trail, touched, sessions, database>>

----------------------------------------------------------------------------
(* Bounds of the model *)

\* ids the table hands out: 1..MaxId
MaxId == 2

\* the tasks listed by the queries of SpecQueries have ids 1..MaxListed
MaxListed == 3

\* the clock runs over 0..MaxTime
MaxTime == 1

\* a TaskUpdate of SpecFields sets at most this many fields
MaxFieldsSet == 2

\* the strings handed to the validators directly are at most this long
MaxStrLen == 3

----------------------------------------------------------------------------
(* Enumerations and column limits *)

TaskStatus == {"pending", "in_progress", "completed", "cancelled"}

TaskPriority == {"low", "medium", "high", "urgent"}

\* TaskValidator.validate_title: len(sanitized_title) > 200
MaxTitleLen == 200

\* TaskValidator.validate_description: len(description) > 1000
MaxDescriptionLen == 1000

\* TaskValidator.validate_assigned_to: len(sanitized) > 100
MaxAssigneeLen == 100

\* settings.default_page_size, settings.max_page_size
DefaultPageSize == 100
MaxPageSize == 1000

None == <<>>

Some(x) == <<x>>

\* the fields of TaskUpdate, in declaration order
UpdateFields == {"title", "description", "status", "priority", "due_date", "assigned_to"}

\* the columns of Task
Columns == UpdateFields \cup {"id", "created_at", "updated_at"}

----------------------------------------------------------------------------
(* Strings *)

Whitespace == {" ", "\t", "\n"}

\* str.lstrip(): drop the leading whitespace characters
LStrip(s) ==
    IF \A i \in 1..Len(s) : s[i] \in Whitespace THEN <<>>
    ELSE LET first == CHOOSE i \in 1..Len(s) :
                         /\ s[i] \notin Whitespace
                         /\ \A j \in 1..(i - 1) : s[j] \in Whitespace
         IN  SubSeq(s, first, Len(s))

\* str.rstrip(): drop the trailing whitespace characters
RStrip(s) ==
    IF \A i \in 1..Len(s) : s[i] \in Whitespace THEN <<>>
    ELSE LET final == CHOOSE i \in 1..Len(s) :
                         /\ s[i] \notin Whitespace
                         /\ \A j \in (i + 1)..Len(s) : s[j] \in Whitespace
         IN  SubSeq(s, 1, final)

\* str.strip()
Strip(s) == RStrip(LStrip(s))

----------------------------------------------------------------------------
(* Field validators: each returns Ok(value) or raises (Err) *)

Ok(v) == [ok |-> TRUE, val |-> v]

Err(kind) == [ok |-> FALSE, val |-> kind]

\* validate_title measuring title where the code measures sanitized_title
validate_title_raw_length(title) ==
    IF title = None \/ title[1] = <<>> \/ Strip(title[1]) = <<>>
    THEN Err("InvalidInput")
    ELSE IF Len(title[1]) > MaxTitleLen
         THEN Err("InvalidInput")
         ELSE Ok(Strip(title[1]))

\* validate_title(title): title is Optional[str] in TaskUpdate
validate_title(title) ==
    IF title = None \/ title[1] = <<>> \/ Strip(title[1]) = <<>>
    THEN Err("InvalidInput")
    ELSE LET sanitized_title == Strip(title[1])
         IN  IF Len(sanitized_title) > MaxTitleLen
             THEN Err("InvalidInput")
             ELSE Ok(sanitized_title)

\* validate_description(description): "" is falsy, so it comes back as None
validate_description(description) ==
    IF description = None THEN Ok(None)
    ELSE IF Len(description[1]) > MaxDescriptionLen THEN Err("InvalidInput")
    ELSE IF description[1] # <<>> THEN Ok(Some(Strip(description[1])))
    ELSE Ok(None)

\* validate_due_date(due_date) at clock value t
validate_due_date(due_date, t) ==
    IF due_date # None /\ due_date[1] <= t
    THEN Err("InvalidInput")
    ELSE Ok(due_date)

\* validate_assigned_to returning the stripped string even when it is empty
validate_assigned_to_keep_empty(assigned_to) ==
    IF assigned_to = None THEN Ok(None)
    ELSE LET sanitized == Strip(assigned_to[1])
         IN  IF Len(sanitized) > MaxAssigneeLen THEN Err("InvalidInput")
             ELSE Ok(Some(sanitized))

\* validate_assigned_to(assigned_to)
validate_assigned_to(assigned_to) ==
    IF assigned_to = None THEN Ok(None)
    ELSE LET sanitized == Strip(assigned_to[1])
         IN  IF Len(sanitized) > MaxAssigneeLen THEN Err("InvalidInput")
             ELSE IF sanitized # <<>> THEN Ok(Some(sanitized))
             ELSE Ok(None)

\* validate_priority(priority)
validate_priority(priority) ==
    IF priority \notin TaskPriority THEN Err("InvalidInput") ELSE Ok(priority)

\* a table in which a completed task stays completed
valid_transitions_completed_final ==
    [c \in TaskStatus |->
        CASE c = "pending"     -> <<"in_progress", "cancelled">>
          [] c = "in_progress" -> <<"completed", "cancelled", "pending">>
          [] c = "completed"   -> <<>>
          [] c = "cancelled"   -> <<"pending", "in_progress">>]

\* the dict valid_transitions: status -> list of statuses
valid_transitions ==
    [c \in TaskStatus |->
        CASE c = "pending"     -> <<"in_progress", "cancelled">>
          [] c = "in_progress" -> <<"completed", "cancelled", "pending">>
          [] c = "completed"   -> <<"in_progress">>
          [] c = "cancelled"   -> <<"pending", "in_progress">>]

\* a table that forbids only the change of a status to itself
validate_status_transition_any_change(current_status, new_status) ==
    current_status # new_status

\* a check with a special case that accepts a status equal to the current one
validate_status_transition_or_same(current_status, new_status) ==
    \/ current_status = new_status
    \/ \E i \in 1..Len(valid_transitions[current_status]) :
          valid_transitions[current_status][i] = new_status

\* validate_status_transition: new_status in valid_transitions.get(current_status, [])
validate_status_transition(current_status, new_status) ==
    LET allowed == IF current_status \in DOMAIN valid_transitions
                   THEN valid_transitions[current_status]
                   ELSE <<>>
    IN  \E i \in 1..Len(allowed) : allowed[i] = new_status

----------------------------------------------------------------------------
(* The tasks table *)

\* the primary keys in a set of rows
Ids(rows) == {t.id : t \in rows}

\* session.get(Task, task_id) when the row exists
Row(rows, task_id) == CHOOSE t \in rows : t.id = task_id

Max(S) == CHOOSE x \in S : \A y \in S : y <= x

\* an id taken from the number of rows stored
NewId_count(rows) == Cardinality(rows) + 1

\* the id the table gives a row inserted with id None (INTEGER PRIMARY KEY:
\* one more than the largest id in the table)
NewId(rows) == IF rows = {} THEN 1 ELSE Max(Ids(rows)) + 1

----------------------------------------------------------------------------
(* Calls and their outcomes *)

NoDetail == [missing |-> {}, from |-> "", to |-> "", task |-> 0]

NoRet == [count |-> 0, ids |-> {}, rows |-> {}, items |-> <<>>, total |-> 0,
          stats |-> None]

NoData == [f \in {} |-> None]

\* no call yet
NoCall ==
    [op |-> "none", id |-> 0, ids |-> {}, data |-> NoData,
     result |-> "ok", detail |-> NoDetail, ret |-> NoRet]

Call(op, id, ids, data, result, detail, ret) ==
    [op |-> op, id |-> id, ids |-> ids, data |-> data,
     result |-> result, detail |-> detail, ret |-> ret]

----------------------------------------------------------------------------
(* TaskService *)

\* the validator update_task and bulk_update_tasks apply to a field of
\* update_data; status has none (it is checked against the row instead)
ValidateField(field, value, t) ==
    CASE field = "title"       -> validate_title(value)
      [] field = "description" -> validate_description(value)
      [] field = "due_date"    -> validate_due_date(value, t)
      [] field = "assigned_to" -> validate_assigned_to(value)
      [] field = "priority"    -> IF value = None THEN Err("InvalidInput")
                                  ELSE validate_priority(value[1])
      [] field = "status"      -> IF value = None THEN Ok(None) ELSE Ok(value[1])

\* update_data after the validators replaced each value they accept
Validated(update_data, t) ==
    [f \in DOMAIN update_data |-> ValidateField(f, update_data[f], t)]

\* some validator raised ValueError
Rejected(update_data, t) ==
    \E f \in DOMAIN update_data : ~Validated(update_data, t)[f].ok

\* a transition check that refuses only a status of None
BadTransition_only_none(task, update_data) ==
    /\ "status" \in DOMAIN update_data
    /\ update_data["status"] = None

\* "if 'status' in update_data" and the transition from this row's status
\* is not allowed (None is in no list of valid_transitions)
BadTransition(task, update_data) ==
    /\ "status" \in DOMAIN update_data
    /\ \/ update_data["status"] = None
       \/ ~validate_status_transition(task.status, update_data["status"][1])

\* what the detail of the 400 names as the requested status
Requested(update_data) ==
    IF update_data["status"] = None THEN "None" ELSE update_data["status"][1]

\* a write of the whole object: the optional columns the payload does not
\* name are written as None
Apply_reset_absent(task, values, t) ==
    [c \in Columns |->
        IF c \in DOMAIN values THEN values[c].val
        ELSE IF c = "updated_at" THEN Some(t)
        ELSE IF c \in {"description", "due_date", "assigned_to"} THEN None
        ELSE task[c]]

\* "for field, value in update_data.items(): setattr(db_task, field, value)"
\* followed by the write of updated_at
Apply(task, values, t) ==
    [c \in Columns |->
        IF c \in DOMAIN values THEN values[c].val
        ELSE IF c = "updated_at" THEN Some(t)
        ELSE task[c]]

\* a create_task that treats the status of the payload as a move away from
\* pending and checks it against the transition table
create_task_from_pending(task_data) ==
    LET title == validate_title(Some(task_data.title))
        description == validate_description(task_data.description)
        priority == validate_priority(task_data.priority)
        due_date == validate_due_date(task_data.due_date, now)
        assigned_to == validate_assigned_to(task_data.assigned_to)
        db_task == [id |-> NewId(store),
                    title |-> title.val,
                    description |-> description.val,
                    status |-> task_data.status,
                    priority |-> priority.val,
                    created_at |-> now,
                    updated_at |-> None,
                    due_date |-> due_date.val,
                    assigned_to |-> assigned_to.val]
    IN  /\ last = NoCall
        /\ IF ~(title.ok /\ description.ok /\ priority.ok /\ due_date.ok /\ assigned_to.ok)
           THEN /\ store' = store
                /\ last' = Call("create", 0, {}, task_data, "InvalidInput", NoDetail, NoRet)
                /\ touched' = touched
           ELSE IF /\ task_data.status # "pending"
                   /\ ~validate_status_transition("pending", task_data.status)
           THEN /\ store' = store
                /\ last' = Call("create", 0, {}, task_data, "InvalidTransition",
                                NoDetail, NoRet)
                /\ touched' = touched
           ELSE /\ store' = store \cup {db_task}
                /\ last' = Call("create", 0, {}, task_data, "ok", NoDetail,
                                [NoRet EXCEPT !.rows = {db_task}])
                /\ touched' = touched \ {db_task.id}

\* TaskService.create_task: the rows and the answer it leaves
create_task(task_data) ==
    LET title == validate_title(Some(task_data.title))
        description == validate_description(task_data.description)
        priority == validate_priority(task_data.priority)
        due_date == validate_due_date(task_data.due_date, now)
        assigned_to == validate_assigned_to(task_data.assigned_to)
        db_task == [id |-> NewId(store),
                    title |-> title.val,
                    description |-> description.val,
                    status |-> task_data.status,
                    priority |-> priority.val,
                    created_at |-> now,
                    updated_at |-> None,
                    due_date |-> due_date.val,
                    assigned_to |-> assigned_to.val]
    IN  /\ last = NoCall
        /\ IF title.ok /\ description.ok /\ priority.ok /\ due_date.ok /\ assigned_to.ok
           THEN /\ store' = store \cup {db_task}
                /\ last' = Call("create", 0, {}, task_data, "ok", NoDetail,
                                [NoRet EXCEPT !.rows = {db_task}])
                /\ touched' = touched \ {db_task.id}
           ELSE /\ store' = store
                /\ last' = Call("create", 0, {}, task_data, "InvalidInput", NoDetail, NoRet)
                /\ touched' = touched

\* a call of create_task while the table has an id to hand out
CreateTask(task_data) ==
    /\ NewId(store) <= MaxId
    /\ create_task(task_data)
    /\ UNCHANGED <<now, probe, trail, sessions, database>>

\* a call of create_task for one of the tasks to be listed
CreateListed(task_data) ==
    /\ NewId(store) <= MaxListed
    /\ create_task(task_data)
    /\ UNCHANGED <<now, probe, trail, sessions, database>>

\* update_task with the test bulk_update_tasks has: an empty update_data
\* is refused
UpdateOutcome_empty_refused(db_task, update_data, t) ==
    IF DOMAIN update_data = {} THEN "InvalidInput"
    ELSE IF Rejected(update_data, t) THEN "InvalidInput"
    ELSE IF BadTransition(db_task, update_data) THEN "InvalidTransition"
    ELSE "ok"

\* update_task between the lookup and the writes: the first check that
\* raises decides the outcome (the validators come before the transition check)
UpdateOutcome(db_task, update_data, t) ==
    IF Rejected(update_data, t) THEN "InvalidInput"
    ELSE IF BadTransition(db_task, update_data) THEN "InvalidTransition"
    ELSE "ok"

\* a setattr loop that runs before the transition check: a refused
\* transition leaves the other fields of the payload written
UpdateWrites_fields_first(db_task, update_data, t) ==
    IF UpdateOutcome(db_task, update_data, t) = "InvalidInput" THEN db_task
    ELSE IF UpdateOutcome(db_task, update_data, t) = "InvalidTransition"
    THEN Apply(db_task,
               [f \in DOMAIN update_data \ {"status"} |-> Validated(update_data, t)[f]],
               t)
    ELSE Apply(db_task, Validated(update_data, t), t)

\* a write of updated_at that comes before the checks: a refused update
\* leaves the row stamped
UpdateWrites_stamp_on_failure(db_task, update_data, t) ==
    IF UpdateOutcome(db_task, update_data, t) = "ok"
    THEN Apply(db_task, Validated(update_data, t), t)
    ELSE [db_task EXCEPT !.updated_at = Some(t)]

\* the row update_task commits: the setattr loop runs only once every check
\* has passed, otherwise the row is as it was read
UpdateWrites(db_task, update_data, t) ==
    IF UpdateOutcome(db_task, update_data, t) = "ok"
    THEN Apply(db_task, Validated(update_data, t), t)
    ELSE db_task

\* TaskService.update_task: the rows and the answer it leaves
update_task(task_id, task_update) ==
    /\ last = NoCall
    /\ touched' = IF /\ task_id \in Ids(store)
                     /\ UpdateOutcome(Row(store, task_id), task_update, now) = "ok"
                  THEN touched \cup {task_id}
                  ELSE touched
    /\ IF task_id \notin Ids(store)
       THEN /\ store' = store
            /\ last' = Call("update", task_id, {}, task_update, "NotFound", NoDetail, NoRet)
       ELSE LET db_task == Row(store, task_id)
                outcome == UpdateOutcome(db_task, task_update, now)
                written == UpdateWrites(db_task, task_update, now)
            IN  /\ store' = (store \ {db_task}) \cup {written}
                /\ last' = Call("update", task_id, {}, task_update, outcome,
                                IF outcome = "InvalidTransition"
                                THEN [NoDetail EXCEPT !.from = db_task.status,
                                                      !.to = Requested(task_update)]
                                ELSE NoDetail,
                                IF outcome = "ok"
                                THEN [NoRet EXCEPT !.rows = {written}]
                                ELSE NoRet)

\* a call of update_task
UpdateTask(task_id, task_update) ==
    /\ update_task(task_id, task_update)
    /\ UNCHANGED <<now, probe, trail, sessions, database>>

----------------------------------------------------------------------------
(* update_task of concurrent callers.  Each request has its own Session     *)
(* (get_session); the SELECT of session.get and the UPDATE sent by          *)
(* session.commit are the two accesses to the table, and nothing is held on *)
(* the row between them.                                                    *)

\* the callers whose requests are served at the same time
Callers == {"A", "B"}

\* a caller with no request in progress
Idle == [pc |-> "idle", task_id |-> 0, update_data |-> NoData, db_task |-> None,
         result |-> "none"]

\* the UPDATE session.commit sends for db_task: it sets the columns whose
\* attribute differs from the value loaded, WHERE id = db_task.id; the other
\* columns of the row keep what the table holds now
Flush(current, db_task, update_data, t) ==
    LET written == Apply(db_task, Validated(update_data, t), t)
    IN  [c \in Columns |-> IF written[c] # db_task[c] THEN written[c] ELSE current[c]]

\* update_task from get_task_by_id to the last check: the row is loaded into
\* the caller's Session and the payload is checked against it
ReadTask(c, task_id, task_update) ==
    /\ sessions[c].pc = "idle"
    /\ sessions' = [sessions EXCEPT ![c] =
          IF task_id \notin Ids(store)
          THEN [pc |-> "done", task_id |-> task_id, update_data |-> task_update,
                db_task |-> None, result |-> "NotFound"]
          ELSE LET db_task == Row(store, task_id)
                   outcome == UpdateOutcome(db_task, task_update, now)
               IN  [pc |-> IF outcome = "ok" THEN "write" ELSE "done",
                    task_id |-> task_id, update_data |-> task_update,
                    db_task |-> Some(db_task), result |-> outcome]]
    /\ UNCHANGED <<store, now, last, probe, trail, touched, database>>

\* update_task from the setattr loop to session.commit(): the UPDATE is sent
\* and committed; it raises StaleDataError when the row is gone
CommitTask(c) ==
    LET s == sessions[c]
    IN  /\ s.pc = "write"
        /\ IF s.task_id \notin Ids(store)
           THEN /\ store' = store
                /\ touched' = touched
                /\ sessions' = [sessions EXCEPT ![c].pc = "done",
                                                ![c].result = "StaleData"]
           ELSE /\ store' = (store \ {Row(store, s.task_id)})
                                \cup {Flush(Row(store, s.task_id), s.db_task[1],
                                            s.update_data, now)}
                /\ touched' = touched \cup {s.task_id}
                /\ sessions' = [sessions EXCEPT ![c].pc = "done"]
        /\ UNCHANGED <<now, last, probe, trail, database>>

\* the response is sent and the caller's Session is closed
ReturnTask(c) ==
    /\ sessions[c].pc = "done"
    /\ sessions' = [sessions EXCEPT ![c] = Idle]
    /\ UNCHANGED <<store, now, last, probe, trail, touched, database>>

\* the history after update_task has moved the task followed from status
\* current to status new: every status it had before, current included, is
\* now followed by new
Followed(pairs, current, new) ==
    pairs \cup {<<current, new>>} \cup {<<p[1], new>> : p \in {q \in pairs : q[2] = current}}

\* a call of update_task on the task followed, with the history kept
UpdateTaskFollowed(task_id, task_update) ==
    /\ update_task(task_id, task_update)
    /\ trail' = IF /\ task_id \in Ids(store)
                   /\ "status" \in DOMAIN task_update
                   /\ UpdateOutcome(Row(store, task_id), task_update, now) = "ok"
                THEN Followed(trail, Row(store, task_id).status, task_update["status"][1])
                ELSE trail
    /\ UNCHANGED <<now, probe, sessions, database>>

\* a delete that keeps the row and marks it cancelled
DeleteTask_soft(task_id) ==
    /\ last = NoCall
    /\ IF task_id \notin Ids(store)
       THEN /\ store' = store
            /\ last' = Call("delete", task_id, {}, NoData, "NotFound", NoDetail, NoRet)
       ELSE /\ store' = (store \ {Row(store, task_id)})
                            \cup {[Row(store, task_id) EXCEPT !.status = "cancelled"]}
            /\ last' = Call("delete", task_id, {}, NoData, "ok", NoDetail, NoRet)
    /\ touched' = touched \ {task_id}
    /\ UNCHANGED <<now, probe, trail, sessions, database>>

\* TaskService.delete_task
DeleteTask(task_id) ==
    /\ last = NoCall
    /\ IF task_id \notin Ids(store)
       THEN /\ store' = store
            /\ last' = Call("delete", task_id, {}, NoData, "NotFound", NoDetail, NoRet)
       ELSE /\ store' = store \ {Row(store, task_id)}
            /\ last' = Call("delete", task_id, {}, NoData, "ok", NoDetail, NoRet)
    /\ touched' = touched \ {task_id}
    /\ UNCHANGED <<now, probe, trail, sessions, database>>

\* an existence check that reports no id as missing
MissingIds_none(task_ids, existing_ids) == {}

\* missing_ids of bulk_update_tasks
MissingIds(task_ids, existing_ids) == {i \in task_ids : i \notin existing_ids}

\* a transition check made for the row of smallest id only
Offending_first_only(existing_tasks, update_data) ==
    {t \in existing_tasks : /\ \A u \in existing_tasks : t.id <= u.id
                            /\ BadTransition(t, update_data)}

\* the rows for which the loop over existing_tasks raises
Offending(existing_tasks, update_data) ==
    {t \in existing_tasks : BadTransition(t, update_data)}

\* bulk_update_tasks without the test `if not update_data`
BulkUpdateOutcome_empty_allowed(task_ids, existing_tasks, update_data, t) ==
    IF MissingIds(task_ids, Ids(existing_tasks)) # {} THEN "NotFound"
    ELSE IF Rejected(update_data, t) THEN "InvalidInput"
    ELSE IF Offending(existing_tasks, update_data) # {} THEN "InvalidTransition"
    ELSE "ok"

\* bulk_update_tasks up to the writes: the first check that raises decides
BulkUpdateOutcome(task_ids, existing_tasks, update_data, t) ==
    IF MissingIds(task_ids, Ids(existing_tasks)) # {} THEN "NotFound"
    ELSE IF DOMAIN update_data = {} THEN "InvalidInput"
    ELSE IF Rejected(update_data, t) THEN "InvalidInput"
    ELSE IF Offending(existing_tasks, update_data) # {} THEN "InvalidTransition"
    ELSE "ok"

\* a write loop that leaves updated_at out of update_data
BulkUpdateWrites_no_timestamp(existing_tasks, update_data, t) ==
    {[Apply(task, Validated(update_data, t), t) EXCEPT !.updated_at = task.updated_at] :
        task \in existing_tasks}

\* the rows bulk_update_tasks commits: update_data with updated_at added is
\* set on every row of existing_tasks
BulkUpdateWrites(existing_tasks, update_data, t) ==
    {Apply(task, Validated(update_data, t), t) : task \in existing_tasks}

\* TaskService.bulk_update_tasks; the order in which the query returns
\* existing_tasks is not fixed, so any offending row may be the one named
BulkUpdateTasks(task_ids, update_data) ==
    LET existing_tasks == {t \in store : t.id \in task_ids}
        existing_ids == Ids(existing_tasks)
        outcome == BulkUpdateOutcome(task_ids, existing_tasks, update_data, now)
    IN  /\ last = NoCall
        /\ IF outcome = "ok"
           THEN /\ store' = (store \ existing_tasks)
                                \cup BulkUpdateWrites(existing_tasks, update_data, now)
                /\ last' = Call("bulk_update", 0, task_ids, update_data, "ok", NoDetail,
                                [NoRet EXCEPT !.count = Cardinality(existing_tasks),
                                              !.ids = existing_ids])
           ELSE IF outcome = "InvalidTransition"
           THEN /\ store' = store
                /\ \E t \in Offending(existing_tasks, update_data) :
                      last' = Call("bulk_update", 0, task_ids, update_data,
                                   "InvalidTransition",
                                   [NoDetail EXCEPT !.from = t.status,
                                                    !.to = Requested(update_data),
                                                    !.task = t.id],
                                   NoRet)
           ELSE /\ store' = store
                /\ last' = Call("bulk_update", 0, task_ids, update_data, outcome,
                                [NoDetail EXCEPT
                                    !.missing = MissingIds(task_ids, existing_ids)],
                                NoRet)
        /\ touched' = IF outcome = "ok" THEN touched \cup existing_ids ELSE touched
        /\ UNCHANGED <<now, probe, trail, sessions, database>>

\* an existence check as strict as that of bulk_update_tasks
DeleteRefused_any_missing(task_ids, existing_ids) == task_ids # existing_ids

\* "if not existing_ids" of bulk_delete_tasks
DeleteRefused(task_ids, existing_ids) == existing_ids = {}

\* TaskService.bulk_delete_tasks
BulkDeleteTasks(task_ids) ==
    LET existing_tasks == {t \in store : t.id \in task_ids}
        existing_ids == Ids(existing_tasks)
    IN  /\ last = NoCall
        /\ IF DeleteRefused(task_ids, existing_ids)
           THEN /\ store' = store
                /\ last' = Call("bulk_delete", 0, task_ids, NoData, "NotFound",
                                NoDetail, NoRet)
           ELSE /\ store' = store \ existing_tasks
                /\ last' = Call("bulk_delete", 0, task_ids, NoData, "ok", NoDetail,
                                [NoRet EXCEPT !.count = Cardinality(existing_ids),
                                              !.ids = existing_ids])
        /\ touched' = touched \ existing_ids
        /\ UNCHANGED <<now, probe, trail, sessions, database>>

\* a lookup that returns whatever session.get gives, None included
GetTask_unchecked(task_id) ==
    /\ last = NoCall
    /\ store' = store
    /\ last' = Call("get", task_id, {}, NoData, "ok", NoDetail,
                    [NoRet EXCEPT !.rows = {t \in store : t.id = task_id}])
    /\ UNCHANGED <<now, probe, trail, touched, sessions, database>>

\* TaskService.get_task_by_id
GetTask(task_id) ==
    /\ last = NoCall
    /\ store' = store
    /\ last' = IF task_id \notin Ids(store)
               THEN Call("get", task_id, {}, NoData, "NotFound", NoDetail, NoRet)
               ELSE Call("get", task_id, {}, NoData, "ok", NoDetail,
                         [NoRet EXCEPT !.rows = {Row(store, task_id)}])
    /\ UNCHANGED <<now, probe, trail, touched, sessions, database>>

----------------------------------------------------------------------------
(* TaskService.get_tasks and get_task_statistics *)

\* the characters of the stored strings and of the search texts, in the order
\* of their code points (the order of the BINARY collation)
Alphabet == <<"\t", "\n", " ", "%", "B", "D", "_", "a", "b", "d", "x">>

CharCode(c) == CHOOSE i \in 1..Len(Alphabet) : Alphabet[i] = c

\* str.lower() and SQL lower() on one character of the alphabet
LowerChar(c) ==
    CASE c = "B" -> "b"
      [] c = "D" -> "d"
      [] OTHER   -> c

Lower(s) == [i \in 1..Len(s) |-> LowerChar(s[i])]

RECURSIVE Like(_, _)
\* the SQL operator "s LIKE pattern": % stands for any run of characters and
\* _ for any one character; no escape character is given
Like(s, pattern) ==
    IF pattern = <<>> THEN s = <<>>
    ELSE IF Head(pattern) = "%"
    THEN \E k \in 0..Len(s) : Like(SubSeq(s, k + 1, Len(s)), Tail(pattern))
    ELSE /\ s # <<>>
         /\ Head(pattern) = "_" \/ Head(pattern) = Head(s)
         /\ Like(Tail(s), Tail(pattern))

\* column.contains(other): column LIKE '%' || other || '%'
Contains(s, other) == Like(s, <<"%">> \o other \o <<"%">>)

\* "if status:", "if assigned_to:", "if search:" on an Optional[str]
Truthy(value) == value # None /\ value[1] # <<>>

\* search_filter on one row: a NULL description makes its side NULL
SearchFilter(task, search) ==
    LET search_lower == Lower(search)
    IN  \/ Contains(Lower(task.title), search_lower)
        \/ /\ task.description # None
           /\ Contains(Lower(task.description[1]), search_lower)

\* the rows the where clauses of query and count_query keep
Selected(rows, q) ==
    {t \in rows :
        /\ q.status # None => t.status = q.status[1]
        /\ q.priority # None => t.priority = q.priority[1]
        /\ Truthy(q.assigned_to) => t.assigned_to = q.assigned_to
        /\ Truthy(q.search) => SearchFilter(t, q.search[1])}

\* TaskPriority.sort_value: priority_values.get(self.value, 0)
sort_value(priority) ==
    CASE priority = "low"    -> 1
      [] priority = "medium" -> 2
      [] priority = "high"   -> 3
      [] priority = "urgent" -> 4
      [] OTHER               -> 0

\* an ordering of the priorities by their names
PriorityCase_alphabetical(priority) ==
    CASE priority = "high"   -> 1
      [] priority = "low"    -> 2
      [] priority = "medium" -> 3
      [] priority = "urgent" -> 4
      [] OTHER               -> 0

\* priority_case
PriorityCase(priority) ==
    CASE priority = "low"    -> 1
      [] priority = "medium" -> 2
      [] priority = "high"   -> 3
      [] priority = "urgent" -> 4
      [] OTHER               -> 0

\* the value the database orders a row by, as a sequence of numbers compared
\* from the left: a number is itself, a string its code points, NULL the
\* empty sequence (SQLite puts NULL before every value)
SortKey(task, field) ==
    CASE field = "priority" -> <<PriorityCase(task.priority)>>
      [] field \in {"id", "created_at"} -> <<task[field]>>
      [] field \in {"updated_at", "due_date"} -> task[field]
      [] field = "title" -> [i \in 1..Len(task.title) |-> CharCode(task.title[i])]
      [] field = "assigned_to" ->
            IF task.assigned_to = None THEN <<>>
            ELSE [i \in 1..Len(task.assigned_to[1]) |-> CharCode(task.assigned_to[1][i])]
      [] field = "status" ->
            <<CHOOSE i \in 1..4 :
                <<"cancelled", "completed", "in_progress", "pending">>[i] = task.status>>

RECURSIVE KeyLess(_, _)
\* a sorts strictly before b
KeyLess(a, b) ==
    IF b = <<>> THEN FALSE
    ELSE IF a = <<>> THEN TRUE
    ELSE IF Head(a) # Head(b) THEN Head(a) < Head(b)
    ELSE KeyLess(Tail(a), Tail(b))

\* a direction taken from sort_order whether or not a sort field is named
Descending_as_asked(q) == q.sort_order = Some("desc")

\* the column and direction of the order_by clause
OrderField(q) == IF q.sort_by # None THEN q.sort_by[1] ELSE "created_at"

Descending(q) == IF q.sort_by # None THEN q.sort_order = Some("desc") ELSE TRUE

\* the orders in which the database may return the rows: any order that
\* respects the order_by clause (rows with equal keys come in any order)
Orderings(rows, q) ==
    LET n == Cardinality(rows)
        key(t) == SortKey(t, OrderField(q))
    IN  {seq \in [1..n -> rows] :
            /\ \A i \in 1..n, j \in 1..n : i # j => seq[i] # seq[j]
            /\ \A i \in 1..n, j \in 1..n :
                  i < j => IF Descending(q) THEN ~KeyLess(key(seq[i]), key(seq[j]))
                           ELSE ~KeyLess(key(seq[j]), key(seq[i]))}

Min(a, b) == IF a <= b THEN a ELSE b

\* a page cut by the limit first and by the offset afterwards
Page_limit_first(ordered, skip, limit) ==
    SubSeq(SubSeq(ordered, 1, Min(limit, Len(ordered))), skip + 1, Min(limit, Len(ordered)))

\* query.offset(skip).limit(limit) on the ordered rows
Page(ordered, skip, limit) == SubSeq(ordered, skip + 1, Min(skip + limit, Len(ordered)))

\* the arguments of get_tasks when the caller gives none but these filters
Query(status, priority) ==
    [skip |-> 0, limit |-> DefaultPageSize, status |-> status, priority |-> priority,
     assigned_to |-> None, search |-> None, sort_by |-> None, sort_order |-> None]

\* a list call whose total is taken from the paginated query
GetTasks_total_of_page(q) ==
    /\ last = NoCall
    /\ store' = store
    /\ \E ordered \in Orderings(Selected(store, q), q) :
          last' = Call("list", 0, {}, q, "ok", NoDetail,
                       [NoRet EXCEPT !.items = Page(ordered, q.skip, q.limit),
                                     !.total = Len(Page(ordered, q.skip, q.limit))])
    /\ UNCHANGED <<now, probe, trail, touched, sessions, database>>

\* TaskService.get_tasks
GetTasks(q) ==
    /\ last = NoCall
    /\ store' = store
    /\ \E ordered \in Orderings(Selected(store, q), q) :
          last' = Call("list", 0, {}, q, "ok", NoDetail,
                       [NoRet EXCEPT !.items = Page(ordered, q.skip, q.limit),
                                     !.total = Cardinality(Selected(store, q))])
    /\ UNCHANGED <<now, probe, trail, touched, sessions, database>>

\* get_task_statistics with one grouped count per column in place of one
\* count per enum member: a value no task has gets no bucket
Statistics_grouped(rows) ==
    [total_tasks        |-> Cardinality(rows),
     status_breakdown   |-> [s \in {t.status : t \in rows}
                                |-> Cardinality({t \in rows : t.status = s})],
     priority_breakdown |-> [p \in {t.priority : t \in rows}
                                |-> Cardinality({t \in rows : t.priority = p})]]

\* the dict get_task_statistics returns
Statistics(rows) ==
    [total_tasks        |-> Cardinality(rows),
     status_breakdown   |-> [s \in TaskStatus |-> Cardinality({t \in rows : t.status = s})],
     priority_breakdown |-> [p \in TaskPriority |-> Cardinality({t \in rows : t.priority = p})]]

\* TaskService.get_task_statistics
GetTaskStatistics ==
    /\ last = NoCall
    /\ store' = store
    /\ last' = Call("statistics", 0, {}, NoData, "ok", NoDetail,
                    [NoRet EXCEPT !.stats = Some(Statistics(store))])
    /\ UNCHANGED <<now, probe, trail, touched, sessions, database>>

\* the handler has returned and the request's session is closed: the service
\* is ready for the next call
Respond ==
    /\ last # NoCall
    /\ last' = NoCall
    /\ UNCHANGED <<store, now, probe, trail, touched, sessions, database>>

\* time passes between calls
Tick ==
    /\ last = NoCall
    /\ now < MaxTime
    /\ now' = now + 1
    /\ UNCHANGED <<store, last, probe, trail, touched, sessions, database>>

----------------------------------------------------------------------------
(* Direct calls of the validators *)

NoProbe == [fn |-> "none", arg |-> None, at |-> 0, out |-> Ok(None)]

Probe(fn, arg, at, out) == [fn |-> fn, arg |-> arg, at |-> at, out |-> out]

\* the characters of the input strings
Chars == {" ", "a", "B"}

RECURSIVE StringsUpTo(_)
\* the strings over Chars of length at most n
StringsUpTo(n) ==
    IF n = 0 THEN {<<>>}
    ELSE LET shorter == StringsUpTo(n - 1)
         IN  shorter \cup {Append(s, c) : s \in {x \in shorter : Len(x) = n - 1}, c \in Chars}

\* the string of n copies of the character c
Repeat(c, n) == [i \in 1..n |-> c]

\* strings at the length limit, one character longer, and one character
\* longer only by the blanks around them
StringsAround(limit) ==
    {Repeat("a", limit), Repeat("a", limit + 1),
     <<" ">> \o Repeat("a", limit), Repeat("a", limit) \o <<" ">>,
     <<" ">> \o Repeat("a", limit - 1), Repeat(" ", limit + 1)}

\* Optional[str] arguments
StringArgs(limit) ==
    {None} \cup {Some(s) : s \in StringsUpTo(MaxStrLen) \cup StringsAround(limit)}

CallValidateTitle ==
    /\ \E title \in StringArgs(MaxTitleLen) :
          probe' = Probe("validate_title", title, 0, validate_title(title))
    /\ UNCHANGED <<store, now, last, trail, touched, sessions, database>>

CallValidateDescription ==
    /\ \E description \in StringArgs(MaxDescriptionLen) :
          probe' = Probe("validate_description", description, 0,
                         validate_description(description))
    /\ UNCHANGED <<store, now, last, trail, touched, sessions, database>>

CallValidateAssignedTo ==
    /\ \E assigned_to \in StringArgs(MaxAssigneeLen) :
          probe' = Probe("validate_assigned_to", assigned_to, 0,
                         validate_assigned_to(assigned_to))
    /\ UNCHANGED <<store, now, last, trail, touched, sessions, database>>

CallValidateDueDate ==
    /\ \E t \in 0..MaxTime, due_date \in {None} \cup {Some(d) : d \in 0..(MaxTime + 1)} :
          probe' = Probe("validate_due_date", due_date, t, validate_due_date(due_date, t))
    /\ UNCHANGED <<store, now, last, trail, touched, sessions, database>>

CallValidatePriority ==
    /\ \E priority \in TaskPriority :
          probe' = Probe("validate_priority", Some(priority), 0, validate_priority(priority))
    /\ UNCHANGED <<store, now, last, trail, touched, sessions, database>>

CallValidateStatusTransition ==
    /\ \E current_status \in TaskStatus, new_status \in TaskStatus :
          probe' = Probe("validate_status_transition", <<current_status, new_status>>, 0,
                         Ok(validate_status_transition(current_status, new_status)))
    /\ UNCHANGED <<store, now, last, trail, touched, sessions, database>>

NextValidators ==
    \/ CallValidateTitle
    \/ CallValidateDescription
    \/ CallValidateAssignedTo
    \/ CallValidateDueDate
    \/ CallValidatePriority
    \/ CallValidateStatusTransition

----------------------------------------------------------------------------
(* MigrationManager (app/database/migrations.py).  A version string is the *)
(* sequence of its digits; a script is the sequence of the statements it     *)
(* executes.  The sqlite3 connection runs each DDL statement outside any     *)
(* transaction, so a statement that has run stays in effect when a later one *)
(* raises.                                                                   *)

\* CreateTasksTable: "001"
CreateTasksTable ==
    [version |-> <<0, 0, 1>>,
     up   |-> <<[op |-> "CREATE TABLE", name |-> "tasks"],
                [op |-> "CREATE INDEX", name |-> "idx_tasks_status"],
                [op |-> "CREATE INDEX", name |-> "idx_tasks_priority"],
                [op |-> "CREATE INDEX", name |-> "idx_tasks_created_at"],
                [op |-> "CREATE INDEX", name |-> "idx_tasks_due_date"],
                [op |-> "CREATE INDEX", name |-> "idx_tasks_assigned_to"]>>,
     down |-> <<[op |-> "DROP TABLE", name |-> "tasks"]>>]

\* AddTaskIndexes: "002"
AddTaskIndexes ==
    [version |-> <<0, 0, 2>>,
     up   |-> <<[op |-> "CREATE INDEX", name |-> "idx_tasks_title"],
                [op |-> "CREATE INDEX", name |-> "idx_tasks_compound_status_priority"]>>,
     down |-> <<[op |-> "DROP INDEX", name |-> "idx_tasks_title"],
                [op |-> "DROP INDEX", name |-> "idx_tasks_compound_status_priority"]>>]

\* MigrationManager.migrations
migrations == <<CreateTasksTable, AddTaskIndexes>>

\* a > b for Python strings of digits: the first position where they differ
\* decides, and a string is greater than each of its proper prefixes
StrGreater(a, b) ==
    \E i \in 1..Len(a) :
        /\ i <= Len(b) + 1
        /\ \A j \in 1..(i - 1) : a[j] = b[j]
        /\ IF i <= Len(b) THEN a[i] > b[i] ELSE TRUE

\* the statement can run: an index needs its table (all indexes are on tasks)
CanExecute(stmt, objects) ==
    stmt.op = "CREATE INDEX" => "tasks" \in objects

\* the tables and indexes after the statement has run; every statement has
\* IF [NOT] EXISTS, and dropping a table drops its indexes
Execute(stmt, objects) ==
    CASE stmt.op = "CREATE TABLE" -> objects \cup {stmt.name}
      [] stmt.op = "CREATE INDEX" -> objects \cup {stmt.name}
      [] stmt.op = "DROP INDEX"   -> objects \ {stmt.name}
      [] stmt.op = "DROP TABLE"   -> {}

\* nothing goes wrong during the call
NoFault == [version |-> <<>>, at |-> 0]

\* the errors the database can raise during a call of migrate (scripts up) or
\* rollback (scripts down): at the k-th statement of a version's script, or
\* (one past the last statement) at the write to table migrations
Faults(direction) ==
    {NoFault} \cup
    UNION {{[version |-> migrations[i].version, at |-> k] :
                k \in 1..(Len(migrations[i][direction]) + 1)} :
           i \in 1..Len(migrations)}

RECURSIVE RunScript(_, _, _, _)
\* a script run from its i-th statement: it stops at the first statement
\* that raises and keeps what the statements before it did
RunScript(script, i, objects, failAt) ==
    IF i > Len(script) THEN [ok |-> TRUE, objects |-> objects]
    ELSE IF i = failAt \/ ~CanExecute(script[i], objects)
    THEN [ok |-> FALSE, objects |-> objects]
    ELSE RunScript(script, i + 1, Execute(script[i], objects), failAt)

\* where the fault strikes in the script of migration m (0: nowhere)
FailAt(m, fault) == IF fault.version = m.version THEN fault.at ELSE 0

RECURSIVE ApplyPending_continue(_, _, _)
\* a loop of migrate without the break: a failed version is skipped and the
\* next pending one is applied
ApplyPending_continue(pending, d, fault) ==
    IF pending = <<>> THEN d
    ELSE LET migration == Head(pending)
             run == RunScript(migration.up, 1, d.objects, FailAt(migration, fault))
             recorded == run.ok /\ FailAt(migration, fault) # Len(migration.up) + 1
         IN  ApplyPending_continue(Tail(pending),
                 [d EXCEPT !.objects = run.objects,
                           !.migrations = IF recorded THEN @ \cup {migration.version} ELSE @,
                           !.results = Append(@, [version |-> migration.version,
                                                  status |-> IF recorded THEN "success"
                                                             ELSE "failed"])],
                 fault)

RECURSIVE ApplyPending(_, _, _)
\* the loop of migrate: up(), then _record_migration, and break at the first
\* exception
ApplyPending(pending, d, fault) ==
    IF pending = <<>> THEN d
    ELSE LET migration == Head(pending)
             run == RunScript(migration.up, 1, d.objects, FailAt(migration, fault))
             recorded == run.ok /\ FailAt(migration, fault) # Len(migration.up) + 1
         IN  IF recorded
             THEN ApplyPending(Tail(pending),
                      [d EXCEPT !.objects = run.objects,
                                !.migrations = @ \cup {migration.version},
                                !.results = Append(@, [version |-> migration.version,
                                                       status |-> "success"])],
                      fault)
             ELSE [d EXCEPT !.objects = run.objects,
                            !.results = Append(@, [version |-> migration.version,
                                                   status |-> "failed"])]

\* MigrationManager.migrate
Migrate ==
    /\ \E fault \in Faults("up") :
          LET pending_migrations ==
                  SelectSeq(migrations, LAMBDA m : m.version \notin database.migrations)
              d == [database EXCEPT !.call = [op |-> "migrate", target |-> None],
                                    !.results = <<>>]
          IN  database' = ApplyPending(pending_migrations, d, fault)
    /\ UNCHANGED <<store, now, last, probe, trail, touched, sessions>>

\* reversed(seq)
Reversed(seq) == [i \in 1..Len(seq) |-> seq[Len(seq) + 1 - i]]

\* applied_migrations[-1]: the last of the versions in ORDER BY version
LastApplied(applied) ==
    CHOOSE v \in applied : \A w \in applied : ~StrGreater(w, v)

RECURSIVE RollbackEach(_, _, _)
\* the loop of rollback: down(), then the DELETE from table migrations, and
\* break at the first exception
RollbackEach(rollback_migrations, d, fault) ==
    IF rollback_migrations = <<>> THEN d
    ELSE LET migration == Head(rollback_migrations)
             run == RunScript(migration.down, 1, d.objects, FailAt(migration, fault))
             deleted == run.ok /\ FailAt(migration, fault) # Len(migration.down) + 1
         IN  IF deleted
             THEN RollbackEach(Tail(rollback_migrations),
                      [d EXCEPT !.objects = run.objects,
                                !.migrations = @ \ {migration.version},
                                !.results = Append(@, [version |-> migration.version,
                                                       status |-> "rolled_back"])],
                      fault)
             ELSE [d EXCEPT !.objects = run.objects,
                            !.results = Append(@, [version |-> migration.version,
                                                   status |-> "failed"])]

\* MigrationManager.rollback; a target_version of None or "" is falsy
Rollback(target_version) ==
    /\ \E fault \in Faults("down") :
          LET applied_migrations == database.migrations
              d == [database EXCEPT !.call = [op |-> "rollback", target |-> target_version],
                                    !.results = <<>>]
              rollback_migrations ==
                  IF target_version # None /\ target_version[1] # <<>>
                  THEN SelectSeq(Reversed(migrations),
                                 LAMBDA m : /\ m.version \in applied_migrations
                                            /\ StrGreater(m.version, target_version[1]))
                  ELSE SelectSeq(Reversed(migrations),
                                 LAMBDA m : m.version = LastApplied(applied_migrations))
          IN  database' = IF applied_migrations = {} THEN d
                          ELSE RollbackEach(rollback_migrations, d, fault)
    /\ UNCHANGED <<store, now, last, probe, trail, touched, sessions>>

----------------------------------------------------------------------------
(* The service driven by its callers *)

\* the ids callers ask for: those the table can hold and one it never holds
RequestIds == 1..(MaxId + 1)

\* BulkTaskUpdate.task_ids, BulkTaskDelete.task_ids: min_length=1
RequestSets == SUBSET RequestIds \ {{}}

\* TaskCreate objects
CreateInputs ==
    {[title |-> <<"a">>, description |-> None, status |-> "pending",
      priority |-> "medium", due_date |-> None, assigned_to |-> None]}

\* the request bodies of POST /tasks: the fields the caller wrote
CreatePayloads ==
    {[title |-> <<"a">>],
     [title |-> <<" ", "b", " ">>, description |-> Some(<<" ", "d", " ">>)],
     [title |-> <<"a">>, status |-> "completed", due_date |-> Some(MaxTime + 1)],
     [title |-> <<"B">>, priority |-> "urgent", assigned_to |-> Some(<<" ", "x">>)]}

\* a TaskCreate whose fields left out default to in_progress and low
TaskCreate_other_defaults(payload) ==
    [title       |-> Strip(payload["title"]),
     description |-> IF "description" \in DOMAIN payload THEN payload["description"] ELSE None,
     status      |-> IF "status" \in DOMAIN payload THEN payload["status"] ELSE "in_progress",
     priority    |-> IF "priority" \in DOMAIN payload THEN payload["priority"] ELSE "low",
     due_date    |-> IF "due_date" \in DOMAIN payload THEN payload["due_date"] ELSE None,
     assigned_to |-> IF "assigned_to" \in DOMAIN payload THEN payload["assigned_to"] ELSE None]

\* the TaskCreate object pydantic builds from a request body: the title is
\* stripped by the field validator, fields left out take the defaults of TaskBase
TaskCreate(payload) ==
    [title       |-> Strip(payload["title"]),
     description |-> IF "description" \in DOMAIN payload THEN payload["description"] ELSE None,
     status      |-> IF "status" \in DOMAIN payload THEN payload["status"] ELSE "pending",
     priority    |-> IF "priority" \in DOMAIN payload THEN payload["priority"] ELSE "medium",
     due_date    |-> IF "due_date" \in DOMAIN payload THEN payload["due_date"] ELSE None,
     assigned_to |-> IF "assigned_to" \in DOMAIN payload THEN payload["assigned_to"] ELSE None]

\* TaskUpdate objects, as model_dump(exclude_unset=True) gives them: no field
\* set, or status set (to a status or explicitly to None)
UpdateInputs ==
    {NoData, [status |-> None]} \cup {[status |-> Some(s)] : s \in TaskStatus}

Init ==
    /\ store = {}
    /\ now = 0
    /\ last = NoCall
    /\ probe = NoProbe
    /\ trail = {}
    /\ touched = {}
    /\ sessions = [c \in Callers |-> Idle]
    /\ database = [objects |-> {}, migrations |-> {},
                   call |-> [op |-> "none", target |-> None], results |-> <<>>]

Next ==
    \/ \E task_data \in CreateInputs : CreateTask(task_data)
    \/ \E task_id \in RequestIds, task_update \in UpdateInputs :
          UpdateTask(task_id, task_update)
    \/ \E task_id \in RequestIds : DeleteTask(task_id)
    \/ \E task_ids \in RequestSets, update_data \in UpdateInputs :
          BulkUpdateTasks(task_ids, update_data)
    \/ \E task_ids \in RequestSets : BulkDeleteTasks(task_ids)
    \/ Respond
    \/ Tick

\* the service under sequential callers, with time passing
Spec == Init /\ [][Next]_vars

\* the values a TaskUpdate object can carry in each field: TaskUpdate has
\* stripped the title; the other strings are as the caller wrote them
FieldChoices ==
    [title       |-> {Some(<<"b">>), None},
     description |-> {Some(<<" ", "d", " ">>), Some(<<" ">>), Some(<<>>), None},
     status      |-> {Some(s) : s \in TaskStatus},
     priority    |-> {Some("high")},
     due_date    |-> {Some(1), Some(0)},
     assigned_to |-> {Some(<<" ", "x">>), Some(<<" ">>), None}]

RECURSIVE Payloads(_)
\* the TaskUpdate objects that set exactly the fields of the set F
Payloads(F) ==
    IF F = {} THEN {NoData}
    ELSE LET f == CHOOSE x \in F : TRUE
         IN  {[x \in DOMAIN p \cup {f} |-> IF x = f THEN a ELSE p[x]] :
                 p \in Payloads(F \ {f}), a \in FieldChoices[f]}

\* TaskUpdate objects with at most MaxFieldsSet fields set
FieldInputs ==
    UNION {Payloads(F) : F \in {G \in SUBSET UpdateFields : Cardinality(G) <= MaxFieldsSet}}

NextFields ==
    \/ \E task_data \in CreateInputs : CreateTask(task_data)
    \/ \E task_id \in {1}, task_update \in FieldInputs : UpdateTask(task_id, task_update)
    \/ Respond

\* the first row updated field by field at one instant, the other rows as
\* they were created
SpecFields == Init /\ [][NextFields]_vars

NextRecords ==
    \/ \E payload \in CreatePayloads : CreateTask(TaskCreate(payload))
    \/ \E task_id \in RequestIds : GetTask(task_id)
    \/ \E task_id \in RequestIds : UpdateTask(task_id, NoData)
    \/ \E task_id \in RequestIds : DeleteTask(task_id)
    \/ GetTaskStatistics
    \/ Respond
    \/ Tick

\* tasks created from request bodies, read, counted, touched and deleted one
\* by one
SpecRecords == Init /\ [][NextRecords]_vars

NextLifecycle ==
    \/ \E task_data \in CreateInputs : CreateTask(task_data)
    \/ \E task_update \in UpdateInputs : UpdateTaskFollowed(1, task_update)
    \/ Respond
    \/ Tick

\* the first task moved from status to status by single updates, its
\* history kept; nothing else changes it
SpecLifecycle == Init /\ [][NextLifecycle]_vars

\* BulkTaskUpdate.update_data objects: two fields at once with a string that
\* has blanks around it, a priority, a due date that is in the future only
\* at time 0, and the object with no field set
BulkInputs ==
    {[status |-> Some("in_progress"), description |-> Some(<<" ", "d", " ">>)],
     [priority |-> Some("high")],
     [due_date |-> Some(1)],
     NoData}

NextBulk ==
    \/ \E task_data \in CreateInputs : CreateTask(task_data)
    \/ \E task_ids \in RequestSets, update_data \in BulkInputs :
          BulkUpdateTasks(task_ids, update_data)
    \/ Respond
    \/ Tick

\* tasks changed only in bulk, field by field, with time passing
SpecBulk == Init /\ [][NextBulk]_vars

\* the request bodies the listed tasks are created from
ListedBodies ==
    <<[title |-> <<"a">>],
      [title |-> <<" ", "b">>, description |-> Some(<<"D">>), priority |-> "urgent"],
      [title |-> <<"B">>, status |-> "completed", priority |-> "low",
       assigned_to |-> Some(<<"x">>)],
      [title |-> <<"a", "b">>, status |-> "in_progress", priority |-> "high"]>>

\* the bodies the task of id n may be created from: two of the four, in turn
ListedPayloads(n) ==
    {ListedBodies[((n - 1) % Len(ListedBodies)) + 1], ListedBodies[(n % Len(ListedBodies)) + 1]}

\* the arguments of get_tasks as GET /tasks passes them
ListQuery(skip, limit, status, priority, assigned_to, search, sort_by, sort_order) ==
    [skip |-> skip, limit |-> limit, status |-> status, priority |-> priority,
     assigned_to |-> assigned_to, search |-> search,
     sort_by |-> sort_by, sort_order |-> sort_order]

SortOrders == {None, Some("asc"), Some("desc")}

SortFields ==
    {"id", "title", "status", "priority", "created_at", "updated_at", "due_date",
     "assigned_to"}

\* queries that page through the tasks: skip >= 0, 1 <= limit <= max_page_size
PagingQueries ==
    {ListQuery(skip, limit, status, None, None, None, sort_by, Some("desc")) :
        skip \in 0..(MaxListed + 1), limit \in {1, 2, MaxPageSize},
        status \in {None, Some("pending")}, sort_by \in {None, Some("id")}}

\* queries that filter and search
FilterQueries ==
    {ListQuery(0, DefaultPageSize, status, priority, assigned_to, search, None, Some("desc")) :
        status \in {None, Some("completed")},
        priority \in {None, Some("low")},
        assigned_to \in {None, Some(<<>>), Some(<<"x">>)},
        search \in {None, Some(<<>>), Some(<<"b">>), Some(<<"B">>), Some(<<"d">>),
                    Some(<<"a", "b">>), Some(<<"_">>)}}

\* queries that sort
SortQueries ==
    {ListQuery(0, DefaultPageSize, None, None, None, None, sort_by, sort_order) :
        sort_by \in {None} \cup {Some(f) : f \in SortFields}, sort_order \in SortOrders}

Queries == PagingQueries \cup FilterQueries \cup SortQueries

NextQueries ==
    \/ \E payload \in ListedPayloads(NewId(store)) : CreateListed(TaskCreate(payload))
    \/ \E q \in Queries : GetTasks(q)
    \/ Respond
    \/ Tick

\* tasks created over time and listed
SpecQueries == Init /\ [][NextQueries]_vars

\* assigned_to values of request bodies: unset, empty, blank, a name with
\* blanks around it, and a name one character over the limit
AssigneeArgs ==
    {None, Some(<<>>), Some(<<" ">>), Some(<<" ", "x", " ">>),
     Some(Repeat("a", MaxAssigneeLen + 1))}

\* the direct call of a validator has returned
ProbeReturn ==
    /\ probe # NoProbe
    /\ probe' = NoProbe
    /\ UNCHANGED <<store, now, last, trail, touched, sessions, database>>

NextAssignee ==
    \/ last = NoCall /\ probe = NoProbe /\ CallValidateAssignedTo
    \/ ProbeReturn
    \/ \E assigned_to \in AssigneeArgs :
          /\ probe = NoProbe
          /\ CreateTask(TaskCreate([title |-> <<"a">>, assigned_to |-> assigned_to]))
    \/ \E task_id \in RequestIds, assigned_to \in AssigneeArgs :
          /\ probe = NoProbe
          /\ UpdateTask(task_id, [assigned_to |-> assigned_to])
    \/ \E task_ids \in RequestSets, assigned_to \in AssigneeArgs :
          /\ probe = NoProbe
          /\ BulkUpdateTasks(task_ids, [assigned_to |-> assigned_to])
    \/ Respond

\* the assignee validator called directly and through every call that
\* writes the assigned_to column, one call at a time
SpecAssignee == Init /\ [][NextAssignee]_vars

NextConcurrent ==
    \/ \E task_data \in CreateInputs : CreateTask(task_data)
    \/ \E c \in Callers, task_update \in UpdateInputs : ReadTask(c, 1, task_update)
    \/ \E c \in Callers : CommitTask(c)
    \/ \E c \in Callers : ReturnTask(c)
    \/ DeleteTask(1)
    \/ Respond

\* two callers updating the status of the first task at the same time, their
\* reads and their commits in any order
SpecConcurrent == Init /\ [][NextConcurrent]_vars

\* request bodies of POST /tasks that name no status or name one of the four
StatusPayloads ==
    {[title |-> <<"a">>]} \cup {[title |-> <<"a">>, status |-> s] : s \in TaskStatus}

NextCreate ==
    \/ \E payload \in StatusPayloads : CreateTask(TaskCreate(payload))
    \/ \E task_id \in RequestIds : GetTask(task_id)
    \/ \E task_id \in RequestIds : DeleteTask(task_id)
    \/ Respond
    \/ Tick

\* tasks created in every status, read back and deleted
SpecCreate == Init /\ [][NextCreate]_vars

\* --target of migrate.py: none, empty, below every version, a version of the
\* list, and a string above every version
Targets ==
    {None, Some(<<>>), Some(<<0, 0, 0>>), Some(<<0, 0, 1>>), Some(<<0, 0, 2>>),
     Some(<<0, 1>>)}

NextMigrations ==
    \/ Migrate
    \/ \E target_version \in Targets : Rollback(target_version)

\* migrate and rollback called in any order on a database that starts with
\* no table, any one statement of a call failing
SpecMigrations == Init /\ [][NextMigrations]_vars

\* the validators called directly
SpecValidators == Init /\ [][NextValidators]_vars

----------------------------------------------------------------------------
(* Properties *)

\* the edges of the status state machine as the specification lists them
AllowedPairs ==
    {<<"pending", "in_progress">>, <<"pending", "cancelled">>,
     <<"in_progress", "completed">>, <<"in_progress", "cancelled">>,
     <<"in_progress", "pending">>, <<"completed", "in_progress">>,
     <<"cancelled", "pending">>, <<"cancelled", "in_progress">>}

OtherFieldsValid(update_data, t) ==
    \A f \in DOMAIN update_data \ {"status"} : ValidateField(f, update_data[f], t).ok

\* C2: in every step, a row whose stored status differs before and after
\* changed along an edge of the transition table; and a single update
\* carrying a status s on an existing task of status c, the other payload
\* fields being valid, succeeds and stores s when (c, s) is an edge and fails
\* with InvalidTransition, the status staying c, when it is not.
C2_StatusChangesFollowTable ==
    [][ /\ \A t \in store, u \in store' :
              (t.id = u.id /\ t.status # u.status)
                  => <<t.status, u.status>> \in AllowedPairs
        /\ (/\ last'.op = "update"
            /\ last'.id \in Ids(store)
            /\ "status" \in DOMAIN last'.data
            /\ last'.data["status"] # None
            /\ OtherFieldsValid(last'.data, now))
           => LET c == Row(store, last'.id).status
                  s == last'.data["status"][1]
              IN  IF <<c, s>> \in AllowedPairs
                  THEN /\ last'.result = "ok"
                       /\ Row(store', last'.id).status = s
                  ELSE /\ last'.result = "InvalidTransition"
                       /\ Row(store', last'.id).status = c
      ]_vars

\* C2 witness: a task that was created, started and completed is asked to go
\* back to pending and the update is refused
C2_Witness ==
    /\ last.op = "update"
    /\ last.result = "InvalidTransition"
    /\ last.detail.from = "completed"
    /\ last.detail.to = "pending"
    /\ \E t \in store : t.id = last.id /\ t.status = "completed"

\* C3: a single update that fails with InvalidTransition leaves the whole
\* table as it was: the task named keeps its title, description, priority,
\* due_date, assigned_to, status and updated_at, whatever else the payload
\* carried, and every other task is unchanged.
C3_RefusedTransitionWritesNothing ==
    [][ (last'.op = "update" /\ last'.result = "InvalidTransition")
            => /\ store' = store
               /\ \E t \in store' : t.id = last'.id /\ t.status = last'.detail.from
      ]_vars

\* C3 witness: the refused update also carried a valid new title, the task
\* still has its old one, and there is a second task in the table
C3_Witness ==
    /\ last.op = "update"
    /\ last.result = "InvalidTransition"
    /\ "title" \in DOMAIN last.data
    /\ last.data["title"] = Some(<<"b">>)
    /\ \E t \in store : t.id = last.id /\ t.title = <<"a">> /\ t.updated_at = None
    /\ Cardinality(store) = 2

\* C4: a bulk update that asks for at least one id that is not in the table
\* fails with NotFound, its detail holds exactly the requested ids that are
\* missing, and no row of the table (the requested ones that exist included)
\* has any column changed.
C4_BulkUpdateMissingIdRefusesAll ==
    [][ (last'.op = "bulk_update" /\ last'.ids \ Ids(store) # {})
            => /\ last'.result = "NotFound"
               /\ last'.detail.missing = last'.ids \ Ids(store)
               /\ store' = store
      ]_vars

\* C4 witness: three ids requested, two of them pending tasks that could have
\* been started, one missing; the call was refused
C4_Witness ==
    /\ last.op = "bulk_update"
    /\ last.result = "NotFound"
    /\ Cardinality(last.ids) = 3
    /\ Cardinality(last.detail.missing) = 1
    /\ last.data = [status |-> Some("in_progress")]
    /\ Cardinality(store) = 2
    /\ \A t \in store : t.id \in last.ids /\ t.status = "pending" /\ t.updated_at = None

\* C5: a bulk update whose ids all exist, whose payload carries a status s
\* (the other fields being valid) and for which (c, s) is not an edge for the
\* current status c of at least one target, fails with InvalidTransition; the
\* task it names is a target whose own status does not allow s; and no row of
\* the table is changed, the targets that could have moved to s included.
C5_BulkUpdateChecksEveryTarget ==
    [][ (/\ last'.op = "bulk_update"
         /\ last'.ids \subseteq Ids(store)
         /\ "status" \in DOMAIN last'.data
         /\ last'.data["status"] # None
         /\ OtherFieldsValid(last'.data, now)
         /\ \E t \in store : /\ t.id \in last'.ids
                             /\ <<t.status, last'.data["status"][1]>> \notin AllowedPairs)
            => /\ last'.result = "InvalidTransition"
               /\ last'.detail.to = last'.data["status"][1]
               /\ \E t \in store : /\ t.id \in last'.ids
                                   /\ t.id = last'.detail.task
                                   /\ t.status = last'.detail.from
                                   /\ <<t.status, last'.detail.to>> \notin AllowedPairs
               /\ store' = store
      ]_vars

\* C5 witness: a refused bulk update of two tasks, one named as offending
\* and one whose own status allowed the requested status
C5_Witness ==
    /\ last.op = "bulk_update"
    /\ last.result = "InvalidTransition"
    /\ \E t \in store, u \in store :
          /\ {t.id, u.id} \subseteq last.ids
          /\ u.id = last.detail.task
          /\ <<u.status, last.detail.to>> \notin AllowedPairs
          /\ <<t.status, last.detail.to>> \in AllowedPairs

\* C6: after a successful bulk update the table holds the same ids as before;
\* every targeted row has, in each field of the payload, the validated value
\* of that field (so all targets agree on them), has the time of the call as
\* updated_at, and has its other columns as before; every row not targeted is
\* as before; and the call returns the number of targeted rows and their ids.
C6_BulkUpdateSuccess ==
    [][ (last'.op = "bulk_update" /\ last'.result = "ok")
            => LET targets == {t \in store : t.id \in last'.ids}
                   data == last'.data
               IN  /\ last'.ret.count = Cardinality(targets)
                   /\ last'.ret.ids = Ids(targets)
                   /\ Ids(store') = Ids(store)
                   /\ Cardinality(store') = Cardinality(store)
                   /\ \A t \in store \ targets : t \in store'
                   /\ \A t \in targets :
                          LET u == Row(store', t.id)
                          IN  /\ \A f \in DOMAIN data :
                                     u[f] = ValidateField(f, data[f], now).val
                              /\ u.updated_at = Some(now)
                              /\ \A c \in Columns \ (DOMAIN data \cup {"updated_at"}) :
                                     u[c] = t[c]
                   /\ \A u \in store', v \in store' :
                          (u.id \in last'.ids /\ v.id \in last'.ids)
                              => /\ u.updated_at = v.updated_at
                                 /\ \A f \in DOMAIN data : u[f] = v[f]
      ]_vars

\* C6 witness: two tasks were updated together at time 1; both hold the
\* trimmed description and the new status and the same updated_at
C6_Witness ==
    /\ last.op = "bulk_update"
    /\ last.result = "ok"
    /\ last.ret.count = 2
    /\ last.ret.ids = {1, 2}
    /\ last.data = [status |-> Some("in_progress"), description |-> Some(<<" ", "d", " ">>)]
    /\ now = 1
    /\ \A t \in store : /\ t.description = Some(<<"d">>)
                        /\ t.status = "in_progress"
                        /\ t.updated_at = Some(1)
                        /\ t.title = <<"a">>

\* C7: a bulk delete of which at least one requested id is in the table
\* succeeds, removes exactly the rows whose id was requested, leaves the
\* other rows as they were, and returns the number of rows removed and their
\* ids; a bulk delete of which no requested id is in the table fails with
\* NotFound and changes nothing; and it fails in no other case.
C7_BulkDeleteRemovesExisting ==
    [][ last'.op = "bulk_delete"
            => LET existing == {t \in store : t.id \in last'.ids}
               IN  IF existing # {}
                   THEN /\ last'.result = "ok"
                        /\ store' = store \ existing
                        /\ last'.ret.count = Cardinality(existing)
                        /\ last'.ret.ids = Ids(existing)
                   ELSE /\ last'.result = "NotFound"
                        /\ store' = store
      ]_vars

\* C7 witness: three ids were requested, one of them missing; the two tasks
\* that existed are gone and the count returned is 2
C7_Witness ==
    /\ last.op = "bulk_delete"
    /\ last.result = "ok"
    /\ Cardinality(last.ids) = 3
    /\ last.ret.count = 2
    /\ Cardinality(last.ret.ids) = 2
    /\ store = {}

\* C8: a single update of an existing task, or a bulk update whose ids all
\* exist, that carries a status equal to the current status of a target (the
\* other payload fields being valid) is refused with InvalidTransition,
\* whichever of the four statuses it is, and leaves the table as it was.
C8_SameStatusRefused ==
    [][ \A s \in TaskStatus :
          (/\ \/ last'.op = "update" /\ last'.id \in Ids(store)
              \/ last'.op = "bulk_update" /\ last'.ids \subseteq Ids(store)
           /\ "status" \in DOMAIN last'.data
           /\ last'.data["status"] = Some(s)
           /\ OtherFieldsValid(last'.data, now)
           /\ \E t \in store : /\ t.status = s
                               /\ \/ last'.op = "update" /\ t.id = last'.id
                                  \/ last'.op = "bulk_update" /\ t.id \in last'.ids)
              => /\ last'.result = "InvalidTransition"
                 /\ store' = store
      ]_vars

\* C8 witness: a cancelled task was asked, in a bulk update with another
\* task, to become cancelled, and the call was refused naming it
C8_Witness ==
    /\ last.op = "bulk_update"
    /\ last.result = "InvalidTransition"
    /\ last.data = [status |-> Some("cancelled")]
    /\ last.detail.from = "cancelled"
    /\ last.detail.to = "cancelled"
    /\ Cardinality(last.ids) = 2
    /\ \E t \in store : t.id = last.detail.task /\ t.status = "cancelled"

\* a single update that carries only the status b succeeds on a task of status a
CanUpdate(a, b) ==
    UpdateOutcome([status |-> a], [status |-> Some(b)], 0) = "ok"

RECURSIVE ReachableIn(_, _)
\* the statuses a task of status a can have after 1..n successful single updates
ReachableIn(a, n) ==
    IF n = 0 THEN {}
    ELSE LET S == ReachableIn(a, n - 1)
         IN  S \cup {b \in TaskStatus : \E c \in S \cup {a} : CanUpdate(c, b)}

\* the statuses reached from each status by one or more successful single updates
Reachable == [a \in TaskStatus |-> ReachableIn(a, Cardinality(TaskStatus))]

\* C9: from each status, each of the three other statuses is reached by some
\* sequence of single updates that each succeed; and no step in which a
\* single update succeeds takes its task from completed to cancelled or from
\* cancelled to completed (the history of the task followed holds neither
\* pair as one step, and holds only pairs that successful updates compose).
C9_NoTerminalStatus ==
    [][ /\ \A a \in TaskStatus : TaskStatus \ {a} \subseteq Reachable[a]
        /\ (last'.op = "update" /\ last'.id \in Ids(store))
              => LET c == Row(store, last'.id).status
                     d == Row(store', last'.id).status
                 IN  /\ <<c, d>> \notin {<<"completed", "cancelled">>,
                                          <<"cancelled", "completed">>}
                     /\ c # d => /\ last'.result = "ok"
                                 /\ CanUpdate(c, d)
        /\ \A p \in trail' : p[2] \in Reachable[p[1]]
      ]_vars

\* C9 witness: one task has, by successful single updates alone, gone from
\* every status to every other status, and is now asked to go from completed
\* straight to cancelled, which is refused
C9_Witness ==
    /\ \A a \in TaskStatus, b \in TaskStatus : a # b => <<a, b>> \in trail
    /\ last.op = "update"
    /\ last.id = 1
    /\ last.result = "InvalidTransition"
    /\ last.detail.from = "completed"
    /\ last.detail.to = "cancelled"

\* C10: after a successful single update the task named has, in each field
\* of the payload, the validated value of that field, and the time of the
\* call as updated_at; each of its other columns, id and created_at
\* included, is as before; every other row of the table is as before; and
\* the row returned is the row stored.
C10_UpdateChangesOnlyPayloadFields ==
    [][ (last'.op = "update" /\ last'.result = "ok")
            => /\ last'.id \in Ids(store)
               /\ last'.id \in Ids(store')
               /\ LET t == Row(store, last'.id)
                      u == Row(store', last'.id)
                      data == last'.data
                  IN  /\ \A f \in DOMAIN data :
                             u[f] = ValidateField(f, data[f], now).val
                      /\ u.updated_at = Some(now)
                      /\ \A c \in Columns \ (DOMAIN data \cup {"updated_at"}) :
                             u[c] = t[c]
                      /\ store' \ {u} = store \ {t}
                      /\ last'.ret.rows = {u}
      ]_vars

\* C10 witness: an update of the assignee alone, on a task that had a
\* description and a due date, stored the trimmed assignee and kept the
\* description, the due date, the title and the status; a second task exists
C10_Witness ==
    /\ last.op = "update"
    /\ last.result = "ok"
    /\ last.data = [assigned_to |-> Some(<<" ", "x">>)]
    /\ Cardinality(store) = 2
    /\ \E t \in store : /\ t.id = last.id
                        /\ t.assigned_to = Some(<<"x">>)
                        /\ t.description = Some(<<"d">>)
                        /\ t.due_date = Some(1)
                        /\ t.title = <<"a">>
                        /\ t.status = "pending"
                        /\ t.updated_at = Some(0)
                        /\ last.ret.rows = {t}

\* the validators of create_task accept every field of the TaskCreate object d at time t
CreateFieldsValid(d, t) ==
    /\ validate_title(Some(d.title)).ok
    /\ validate_description(d.description).ok
    /\ validate_priority(d.priority).ok
    /\ validate_due_date(d.due_date, t).ok
    /\ validate_assigned_to(d.assigned_to).ok

\* C11: a request body that names no status gives a TaskCreate of status
\* pending, and one that names no priority gives priority medium; and a create
\* whose fields are valid succeeds, adds exactly one row to the table, whose
\* id is the id of no row stored before the call, whose updated_at is unset,
\* whose created_at is the time of the call and whose other columns are the
\* validated fields of the object; it returns that row, and every row stored
\* before is still stored as it was.
C11_CreateAddsOneTask ==
    [][ /\ \A p \in CreatePayloads :
              /\ "status" \notin DOMAIN p => TaskCreate(p).status = "pending"
              /\ "priority" \notin DOMAIN p => TaskCreate(p).priority = "medium"
        /\ (last'.op = "create" /\ CreateFieldsValid(last'.data, now))
              => /\ last'.result = "ok"
                 /\ Cardinality(store') = Cardinality(store) + 1
                 /\ \E r \in store' :
                       /\ store' = store \cup {r}
                       /\ r.id \notin Ids(store)
                       /\ r.updated_at = None
                       /\ r.created_at = now
                       /\ r.title = validate_title(Some(last'.data.title)).val
                       /\ r.description = validate_description(last'.data.description).val
                       /\ r.status = last'.data.status
                       /\ r.priority = last'.data.priority
                       /\ r.due_date = last'.data.due_date
                       /\ r.assigned_to = validate_assigned_to(last'.data.assigned_to).val
                       /\ last'.ret.rows = {r}
      ]_vars

\* C11 witness: a body with only a title was posted at time 1 while a
\* completed task, created at time 0 and updated once, was stored; the new
\* task has another id and is pending, of medium priority, never updated
C11_Witness ==
    /\ last.op = "create"
    /\ last.result = "ok"
    /\ last.data = TaskCreate([title |-> <<"a">>])
    /\ \E r \in store, o \in store :
          /\ last.ret.rows = {r}
          /\ r.status = "pending"
          /\ r.priority = "medium"
          /\ r.updated_at = None
          /\ r.created_at = 1
          /\ o.id # r.id
          /\ o.status = "completed"
          /\ o.created_at = 0
          /\ o.updated_at = Some(0)

\* C12: a get, a single update or a single delete of an id that no stored
\* row has fails with NotFound and leaves the table as it was.
C12_MissingIdNotFound ==
    [][ (last'.op \in {"get", "update", "delete"} /\ last'.id \notin Ids(store))
            => /\ last'.result = "NotFound"
               /\ store' = store
      ]_vars

\* C12 witness: with one task stored, an update of an id that was never
\* handed out was refused with NotFound
C12_Witness ==
    /\ last.op = "update"
    /\ last.result = "NotFound"
    /\ last.id = MaxId + 1
    /\ store # {}

\* the queries a deleted task is looked for with: no filter, and each status
ListingQueries == {Query(None, None)} \cup {Query(Some(s), None) : s \in TaskStatus}

\* C13: a single delete of a stored id succeeds and removes exactly the row
\* of that id, every other row staying as it was; after it the id is in no
\* row, so that (a get, update or delete of an id in no row failing with
\* NotFound) the next get, update or delete of it fails; no list query
\* returns the task, in whatever order the rows come, and the totals of the
\* list queries and the counts of the statistics are one less exactly where
\* the task was counted.
C13_DeleteRemovesTheTask ==
    [][ /\ (last'.op \in {"get", "update", "delete"} /\ last'.id \notin Ids(store))
              => last'.result = "NotFound"
        /\ (last'.op = "delete" /\ last'.id \in Ids(store))
              => LET t == Row(store, last'.id)
                     before == Statistics(store)
                     after == Statistics(store')
                 IN  /\ last'.result = "ok"
                     /\ store' = store \ {t}
                     /\ last'.id \notin Ids(store')
                     /\ \A q \in ListingQueries :
                           /\ \A ordered \in Orderings(Selected(store', q), q) :
                                 \A i \in 1..Len(ordered) : ordered[i].id # last'.id
                           /\ Cardinality(Selected(store', q))
                                 = Cardinality(Selected(store, q))
                                     - (IF t \in Selected(store, q) THEN 1 ELSE 0)
                     /\ after.total_tasks = before.total_tasks - 1
                     /\ \A s \in TaskStatus :
                           after.status_breakdown[s]
                             = before.status_breakdown[s] - (IF t.status = s THEN 1 ELSE 0)
                     /\ \A p \in TaskPriority :
                           after.priority_breakdown[p]
                             = before.priority_breakdown[p] - (IF t.priority = p THEN 1 ELSE 0)
      ]_vars

\* C13 witness: the first of two tasks was deleted; the second, urgent and
\* never updated, is the only row left
C13_Witness ==
    /\ last.op = "delete"
    /\ last.result = "ok"
    /\ last.id = 1
    /\ Cardinality(store) = 1
    /\ \E o \in store : o.id = 2 /\ o.priority = "urgent" /\ o.updated_at = None
    /\ Statistics(store).total_tasks = 1

\* the call answered in the next state is an update or a bulk update that
\* succeeded on the task of this id
SucceededOn(id) ==
    \/ last'.op = "update" /\ last'.result = "ok" /\ last'.id = id
    \/ last'.op = "bulk_update" /\ last'.result = "ok" /\ id \in last'.ids

\* C14: in every reachable state a stored task has updated_at unset exactly
\* when no update and no bulk update has succeeded on it since it was
\* created; and in every step a task on which an update or bulk update
\* succeeds gets the time of that call as updated_at, while every other task
\* that stays stored (the target of a failed call included) keeps its
\* updated_at.
C14_UpdatedAtTracksUpdates ==
    /\ [](\A t \in store : (t.updated_at = None) <=> (t.id \notin touched))
    /\ [][ \A t \in store, u \in store' :
              t.id = u.id => IF SucceededOn(t.id) THEN u.updated_at = Some(now)
                             ELSE u.updated_at = t.updated_at
         ]_vars

\* C14 witness: at time 1 an update of a task that was never updated is
\* refused and the task still has no updated_at, while the other task, bulk
\* or singly updated at time 0, has updated_at 0
C14_Witness ==
    /\ last.op = "update"
    /\ last.result = "InvalidTransition"
    /\ now = 1
    /\ \E t \in store, o \in store :
          /\ t.id = last.id
          /\ t.updated_at = None
          /\ t.id \notin touched
          /\ o.updated_at = Some(0)
          /\ o.id \in touched

\* C15: in every reachable state no two stored rows have the same id; and
\* every update and bulk update, successful or not, leaves the set of stored
\* ids as it was and leaves each stored task with the id and the created_at
\* it had before the call, hence with those it received at creation.
C15_IdAndCreatedAtFixed ==
    /\ [](\A t \in store, u \in store : t.id = u.id => t = u)
    /\ [][ last'.op \in {"update", "bulk_update"}
              => /\ Ids(store') = Ids(store)
                 /\ Cardinality(store') = Cardinality(store)
                 /\ \A t \in store :
                       \E u \in store' : u.id = t.id /\ u.created_at = t.created_at
         ]_vars

\* C15 witness: two tasks created at times 0 and 1 were updated together at
\* time 1 and kept their ids and creation times
C15_Witness ==
    /\ last.op = "bulk_update"
    /\ last.result = "ok"
    /\ last.ids = {1, 2}
    /\ \E t \in store, u \in store :
          /\ t.id = 1 /\ t.created_at = 0 /\ t.updated_at = Some(1)
          /\ u.id = 2 /\ u.created_at = 1 /\ u.updated_at = Some(1)

\* the query q asked for everything at once
Unpaged(q) == [q EXCEPT !.skip = 0, !.limit = MaxPageSize]

\* C16: the total of a list call is the number of stored tasks that the
\* filters and the search text of the query select, whatever skip and limit
\* are: it is the total of the same query without pagination, it is at least
\* the number of items returned, and every item returned is one of the
\* tasks counted.
C16_TotalIgnoresPagination ==
    [][ last'.op = "list"
            => LET q == last'.data
                   counted == Selected(store, Unpaged(q))
               IN  /\ last'.result = "ok"
                   /\ last'.ret.total = Cardinality(counted)
                   /\ Len(last'.ret.items) <= last'.ret.total
                   /\ \A i \in 1..Len(last'.ret.items) : last'.ret.items[i] \in counted
                   /\ store' = store
      ]_vars

\* C16 witness: three tasks are stored and the query skips one and takes
\* one: one item, total 3
C16_Witness ==
    /\ last.op = "list"
    /\ Cardinality(store) = 3
    /\ last.data.skip = 1
    /\ last.data.limit = 1
    /\ last.data.status = None
    /\ Len(last.ret.items) = 1
    /\ last.ret.total = 3

\* C17: the items of a list call with skip >= 0 and limit in 1..max_page_size
\* are the elements at positions skip+1 .. skip+limit (counting from 1) of
\* some arrangement, in the requested sort order, of the tasks the filters
\* select; so their number is min(limit, max(0, total - skip)), and every
\* item passes the filters.
C17_PaginationAfterFilterAndSort ==
    [][ (last'.op = "list" /\ last'.data.skip >= 0
            /\ last'.data.limit \in 1..MaxPageSize)
            => LET q == last'.data
                   items == last'.ret.items
                   filtered == Selected(store, q)
               IN  /\ Len(items) = Min(q.limit, Max({0, last'.ret.total - q.skip}))
                   /\ \A i \in 1..Len(items) : items[i] \in filtered
                   /\ \E ordered \in Orderings(filtered, q) :
                         \A i \in 1..Len(items) : items[i] = ordered[q.skip + i]
                   /\ \A i \in 1..Len(items), j \in 1..Len(items) :
                         i # j => items[i] # items[j]
      ]_vars

\* C17 witness: of three stored tasks two are pending; the query filters on
\* pending, sorts by id descending, skips one and takes one, and returns the
\* pending task of the smaller id with total 2
C17_Witness ==
    /\ last.op = "list"
    /\ Cardinality(store) = 3
    /\ last.data.status = Some("pending")
    /\ last.data.sort_by = Some("id")
    /\ last.data.skip = 1
    /\ last.data.limit = 1
    /\ last.ret.total = 2
    /\ Len(last.ret.items) = 1
    /\ last.ret.items[1].id = 1
    /\ \E t \in store : t.id = 2 /\ t.status = "pending"

\* the text other occurs in s as a run of consecutive characters
IsSubstring(other, s) ==
    \E k \in 0..(Len(s) - Len(other)) : SubSeq(s, k + 1, k + Len(other)) = other

\* the task satisfies every filter of the query that is present (a filter
\* or search text that is absent or empty excludes nothing): status,
\* priority and assigned_to by equality, the search text by occurring in the
\* title or in the description, letter case ignored
Satisfies(t, q) ==
    /\ q.status # None => t.status = q.status[1]
    /\ q.priority # None => t.priority = q.priority[1]
    /\ Truthy(q.assigned_to) => t.assigned_to = q.assigned_to
    /\ Truthy(q.search) =>
          \/ IsSubstring(Lower(q.search[1]), Lower(t.title))
          \/ /\ t.description # None
             /\ IsSubstring(Lower(q.search[1]), Lower(t.description[1]))

\* C18: the tasks a list call selects before pagination are exactly the
\* stored tasks that satisfy every present filter at once, the search text
\* being a substring test that ignores letter case: the total is their
\* number, every item is one of them, and a call that skips nothing and
\* whose limit is at least the number of stored tasks returns all of them.
C18_SelectionIsExact ==
    [][ last'.op = "list"
            => LET q == last'.data
                   items == last'.ret.items
                   wanted == {t \in store : Satisfies(t, q)}
               IN  /\ last'.ret.total = Cardinality(wanted)
                   /\ \A i \in 1..Len(items) : items[i] \in wanted
                   /\ (q.skip = 0 /\ q.limit >= Cardinality(store))
                         => {items[i] : i \in 1..Len(items)} = wanted
      ]_vars

\* C18 witness: the only stored task has the title "a" and no description;
\* a search for "_" lists it
C18_Witness ==
    /\ last.op = "list"
    /\ last.data.search = Some(<<"_">>)
    /\ last.data.status = None
    /\ last.data.priority = None
    /\ last.data.assigned_to = None
    /\ \E t \in store : /\ store = {t}
                        /\ t.title = <<"a">>
                        /\ t.description = None
                        /\ last.ret.items = <<t>>
    /\ last.ret.total = 1

\* the search text holds no character that LIKE reads as a wildcard
Literal(search) == search = None \/ \A i \in 1..Len(search[1]) : search[1][i] \notin {"%", "_"}

\* C18, for literal search texts: when the search text holds neither % nor _
\* the tasks selected are exactly those that satisfy the filters and contain
\* the text.
C18_LiteralSearchIsExact ==
    [][ (last'.op = "list" /\ Literal(last'.data.search))
            => LET q == last'.data
                   items == last'.ret.items
                   wanted == {t \in store : Satisfies(t, q)}
               IN  /\ last'.ret.total = Cardinality(wanted)
                   /\ \A i \in 1..Len(items) : items[i] \in wanted
                   /\ (q.skip = 0 /\ q.limit >= Cardinality(store))
                         => {items[i] : i \in 1..Len(items)} = wanted
      ]_vars

\* the fixed rank of the priorities
Rank == [p \in TaskPriority |->
            CASE p = "low" -> 1 [] p = "medium" -> 2 [] p = "high" -> 3 [] p = "urgent" -> 4]

\* C19: the rank the sort uses and TaskPriority.sort_value both give low 1,
\* medium 2, high 3, urgent 4; and the items of a list call sorted by
\* priority come in non-decreasing rank when the order is ascending and in
\* non-increasing rank when it is descending.
C19_PrioritySortByRank ==
    [][ /\ \A p \in TaskPriority : PriorityCase(p) = Rank[p] /\ sort_value(p) = Rank[p]
        /\ (last'.op = "list" /\ last'.data.sort_by = Some("priority"))
              => LET items == last'.ret.items
                 IN  \A i \in 1..Len(items), j \in 1..Len(items) :
                        i < j =>
                          /\ last'.data.sort_order = Some("asc")
                                => Rank[items[i].priority] <= Rank[items[j].priority]
                          /\ last'.data.sort_order = Some("desc")
                                => Rank[items[i].priority] >= Rank[items[j].priority]
      ]_vars

\* C19 witness: three tasks of priorities medium, low and high, listed by
\* priority ascending, come as low, medium, high (by name they would come
\* as high, low, medium)
C19_Witness ==
    /\ last.op = "list"
    /\ last.data.sort_by = Some("priority")
    /\ last.data.sort_order = Some("asc")
    /\ Len(last.ret.items) = 3
    /\ last.ret.items[1].priority = "low"
    /\ last.ret.items[2].priority = "medium"
    /\ last.ret.items[3].priority = "high"

\* C20: the items of a list call that names no sort field come newest
\* first, in non-increasing created_at, whatever sort direction was passed.
C20_DefaultOrderNewestFirst ==
    [][ (last'.op = "list" /\ last'.data.sort_by = None)
            => LET items == last'.ret.items
               IN  \A i \in 1..Len(items), j \in 1..Len(items) :
                      i < j => items[i].created_at >= items[j].created_at
      ]_vars

\* C20 witness: no sort field, direction ascending, three tasks created at
\* times 0 and 1: the first item is one created at time 1, the last the one
\* created at time 0
C20_Witness ==
    /\ last.op = "list"
    /\ last.data.sort_by = None
    /\ last.data.sort_order = Some("asc")
    /\ Len(last.ret.items) = 3
    /\ last.ret.items[1].created_at = 1
    /\ last.ret.items[3].created_at = 0

\* C21: whenever statistics is called, it leaves the store alone and returns
\* total_tasks equal to the number of stored tasks, a status bucket for each
\* of the four statuses and a priority bucket for each of the four
\* priorities (present even when zero), each bucket holding the number of
\* stored tasks with that value; the status buckets and the priority buckets
\* each add up to total_tasks, and on an empty store every number is 0.
C21_StatisticsCountEveryBucket ==
    [][last'.op = "statistics" =>
          LET stats == last'.ret.stats[1]
              sb == stats.status_breakdown
              pb == stats.priority_breakdown
          IN  /\ last'.result = "ok"
              /\ store' = store
              /\ Cardinality(TaskStatus) = 4
              /\ Cardinality(TaskPriority) = 4
              /\ DOMAIN sb = TaskStatus
              /\ DOMAIN pb = TaskPriority
              /\ stats.total_tasks = Cardinality(store)
              /\ \A s \in TaskStatus :
                    sb[s] = Cardinality({id \in Ids(store) : Row(store, id).status = s})
              /\ \A p \in TaskPriority :
                    pb[p] = Cardinality({id \in Ids(store) : Row(store, id).priority = p})
              /\ sb["pending"] + sb["in_progress"] + sb["completed"] + sb["cancelled"]
                    = stats.total_tasks
              /\ pb["low"] + pb["medium"] + pb["high"] + pb["urgent"]
                    = stats.total_tasks
              /\ store = {} =>
                    /\ stats.total_tasks = 0
                    /\ \A s \in TaskStatus : sb[s] = 0
                    /\ \A p \in TaskPriority : pb[p] = 0
    ]_vars

\* statistics has answered on a store of two tasks, one pending and one
\* completed, one medium and one urgent: four of the eight buckets hold 1 and
\* the other four are present and hold 0
C21_Witness ==
    /\ last.op = "statistics"
    /\ Cardinality(store) = 2
    /\ last.ret.stats[1].total_tasks = 2
    /\ last.ret.stats[1].status_breakdown["pending"] = 1
    /\ last.ret.stats[1].status_breakdown["completed"] = 1
    /\ last.ret.stats[1].status_breakdown["in_progress"] = 0
    /\ last.ret.stats[1].status_breakdown["cancelled"] = 0
    /\ last.ret.stats[1].priority_breakdown["medium"] = 1
    /\ last.ret.stats[1].priority_breakdown["urgent"] = 1
    /\ last.ret.stats[1].priority_breakdown["low"] = 0

\* C22: a bulk update whose payload sets no field never succeeds and changes
\* no row of the table; when every requested id exists (the existence check
\* comes first and answers NotFound otherwise) it fails with InvalidInput.
C22_EmptyBulkPayloadRefused ==
    [][ (last'.op = "bulk_update" /\ DOMAIN last'.data = {})
            => /\ last'.result \in {"InvalidInput", "NotFound"}
               /\ last'.ids \subseteq Ids(store) => last'.result = "InvalidInput"
               /\ last'.result = "NotFound" => ~(last'.ids \subseteq Ids(store))
               /\ store' = store
      ]_vars

\* a bulk update with an empty payload on two stored tasks was refused as
\* InvalidInput
C22_Witness ==
    /\ last.op = "bulk_update"
    /\ DOMAIN last.data = {}
    /\ last.result = "InvalidInput"
    /\ Cardinality(last.ids) = 2
    /\ last.ids \subseteq Ids(store)

\* C23: validate_description passes None through, fails with InvalidInput
\* when the length exceeds 1000, and otherwise returns the trimmed value, an
\* empty trimmed value (from the empty string or from whitespace only) being
\* returned as the empty string and never as None.
C23_DescriptionTrimmedNeverNone ==
    probe.fn = "validate_description" =>
        IF probe.arg = None THEN probe.out.ok /\ probe.out.val = None
        ELSE IF Len(probe.arg[1]) > MaxDescriptionLen
        THEN ~probe.out.ok /\ probe.out.val = "InvalidInput"
        ELSE /\ probe.out.ok
             /\ probe.out.val # None
             /\ probe.out.val = Some(Strip(probe.arg[1]))

\* C23, as the validator computes it: None passes through, a length above
\* 1000 fails with InvalidInput, the empty string comes back as None, and
\* every other string comes back trimmed, whitespace only giving the empty
\* string.
C23_DescriptionEmptyBecomesNone ==
    probe.fn = "validate_description" =>
        IF probe.arg = None THEN probe.out.ok /\ probe.out.val = None
        ELSE IF Len(probe.arg[1]) > MaxDescriptionLen
        THEN ~probe.out.ok /\ probe.out.val = "InvalidInput"
        ELSE IF probe.arg[1] = <<>>
        THEN probe.out.ok /\ probe.out.val = None
        ELSE /\ probe.out.ok
             /\ probe.out.val = Some(Strip(probe.arg[1]))
             /\ (\A i \in 1..Len(probe.arg[1]) : probe.arg[1][i] \in Whitespace)
                   => probe.out.val = Some(<<>>)

\* validate_description was called with the empty string and returned None
C23_Witness ==
    /\ probe.fn = "validate_description"
    /\ probe.arg = Some(<<>>)
    /\ probe.out.ok
    /\ probe.out.val = None

\* every character of s is a whitespace character (true of the empty string)
Blank(s) == \A i \in 1..Len(s) : s[i] \in Whitespace

\* C24, as stated: validate_title fails with InvalidInput for the empty
\* string, for a whitespace-only string and for a string longer than 200
\* characters, and otherwise returns the trimmed string.
C24_TitleLongerThan200Fails ==
    (probe.fn = "validate_title" /\ probe.arg # None) =>
        LET s == probe.arg[1]
        IN  IF Blank(s) \/ Len(s) > MaxTitleLen
            THEN ~probe.out.ok /\ probe.out.val = "InvalidInput"
            ELSE probe.out.ok /\ probe.out.val = Strip(s)

\* C24, amended: validate_title fails with InvalidInput for the empty string,
\* for a whitespace-only string and for a string whose trimmed value is
\* longer than 200 characters (the blanks around a title do not count), and
\* otherwise returns the trimmed string; the result is never empty, neither
\* begins nor ends with whitespace, and is accepted again unchanged:
\* validate_title(validate_title(s)) = validate_title(s).
C24_TitleTrimmedIdempotent ==
    (probe.fn = "validate_title" /\ probe.arg # None) =>
        LET s == probe.arg[1]
        IN  IF Blank(s) \/ Len(Strip(s)) > MaxTitleLen
            THEN ~probe.out.ok /\ probe.out.val = "InvalidInput"
            ELSE /\ probe.out.ok
                 /\ probe.out.val = Strip(s)
                 /\ Len(probe.out.val) \in 1..MaxTitleLen
                 /\ ~Blank(probe.out.val)
                 /\ probe.out.val[1] \notin Whitespace
                 /\ probe.out.val[Len(probe.out.val)] \notin Whitespace
                 /\ validate_title(Some(probe.out.val)).ok
                 /\ validate_title(Some(probe.out.val)).val = probe.out.val

\* validate_title was given 200 letters with a blank in front, 201 characters
\* in all, and returned the 200 letters
C24_Witness ==
    /\ probe.fn = "validate_title"
    /\ probe.arg = Some(<<" ">> \o Repeat("a", MaxTitleLen))
    /\ probe.out.ok
    /\ probe.out.val = Repeat("a", MaxTitleLen)

\* C25: validate_assigned_to passes None through, returns None for the empty
\* string and for a whitespace-only string, fails with InvalidInput exactly
\* when the trimmed length exceeds 100, and otherwise returns the trimmed
\* value; and in every reachable state the assigned_to of a stored task is
\* either unset or a non-empty string that neither begins nor ends with
\* whitespace, of at most 100 characters.
C25_AssigneeTrimmedOrUnset ==
    /\ probe.fn = "validate_assigned_to" =>
          IF probe.arg = None THEN probe.out.ok /\ probe.out.val = None
          ELSE IF Len(Strip(probe.arg[1])) > MaxAssigneeLen
          THEN ~probe.out.ok /\ probe.out.val = "InvalidInput"
          ELSE IF Blank(probe.arg[1])
          THEN probe.out.ok /\ probe.out.val = None
          ELSE probe.out.ok /\ probe.out.val = Some(Strip(probe.arg[1]))
    /\ \A t \in store :
          \/ t.assigned_to = None
          \/ /\ Len(t.assigned_to[1]) \in 1..MaxAssigneeLen
             /\ t.assigned_to[1][1] \notin Whitespace
             /\ t.assigned_to[1][Len(t.assigned_to[1])] \notin Whitespace

\* the validator, called directly with " a ", has returned "a", while one
\* stored task has the assignee "x" it got from " x " and another, updated
\* since it was created, has none
C25_Witness ==
    /\ probe.fn = "validate_assigned_to"
    /\ probe.arg = Some(<<" ", "a", " ">>)
    /\ probe.out.ok
    /\ probe.out.val = Some(<<"a">>)
    /\ \E t \in store : t.assigned_to = Some(<<"x">>)
    /\ \E t \in store : t.assigned_to = None /\ t.updated_at # None

\* C26: with two callers updating the status of the same task concurrently,
\* the status stored for a task changes only along edges of the transition
\* table: no step takes a stored task from a status a to a status b with
\* (a, b) outside the eight allowed pairs.
C26_ConcurrentStatusFollowsTable ==
    [][ \A t \in store, u \in store' :
            (t.id = u.id /\ t.status # u.status)
                => <<t.status, u.status>> \in AllowedPairs
      ]_vars

\* C26, as far as the check in update_task reaches: the status a caller
\* commits is an allowed successor of the status that caller read, whatever
\* the row holds by the time of the commit.
C26_CommitFollowsStatusRead ==
    [][ \A c \in Callers :
            (/\ sessions[c].pc = "write"
             /\ sessions'[c].pc = "done"
             /\ sessions'[c].result = "ok"
             /\ "status" \in DOMAIN sessions[c].update_data)
                => /\ Row(store', sessions[c].task_id).status
                        = sessions[c].update_data["status"][1]
                   /\ <<sessions[c].db_task[1].status,
                         Row(store', sessions[c].task_id).status>> \in AllowedPairs
      ]_vars

\* both callers read the task as in_progress; A has committed completed and
\* B, after it, cancelled: the task went from completed to cancelled
C26_Witness ==
    /\ sessions["A"].pc = "done" /\ sessions["A"].result = "ok"
    /\ sessions["B"].pc = "done" /\ sessions["B"].result = "ok"
    /\ sessions["A"].task_id = 1 /\ sessions["B"].task_id = 1
    /\ sessions["A"].db_task[1].status = "in_progress"
    /\ sessions["B"].db_task[1].status = "in_progress"
    /\ sessions["A"].update_data = [status |-> Some("completed")]
    /\ sessions["B"].update_data = [status |-> Some("cancelled")]
    /\ 1 \in Ids(store)
    /\ Row(store, 1).status = "cancelled"

\* C27: a request body that names a status gives a TaskCreate of that status
\* and one that names none gives pending; and a create whose other fields are
\* valid succeeds whatever that status is (it is never refused as a
\* transition) and stores the new task with exactly that status, so a task
\* can be stored as in_progress, completed or cancelled from the start.
C27_CreateStoresAnyStatus ==
    [][ /\ \A p \in StatusPayloads :
              TaskCreate(p).status
                  = (IF "status" \in DOMAIN p THEN p["status"] ELSE "pending")
        /\ last'.op = "create"
              => /\ last'.result # "InvalidTransition"
                 /\ CreateFieldsValid(last'.data, now)
                       => /\ last'.result = "ok"
                          /\ \E r \in store' :
                                /\ store' = store \cup {r}
                                /\ r.id \notin Ids(store)
                                /\ r.status = last'.data.status
                                /\ last'.ret.rows = {r}
      ]_vars

\* a task was just created as completed, which pending cannot move to in one
\* step, next to a task created as cancelled; neither was ever updated
C27_Witness ==
    /\ last.op = "create"
    /\ last.result = "ok"
    /\ last.data = TaskCreate([title |-> <<"a">>, status |-> "completed"])
    /\ <<"pending", "completed">> \notin AllowedPairs
    /\ \E r \in store, o \in store :
          /\ last.ret.rows = {r}
          /\ r.status = "completed"
          /\ r.updated_at = None
          /\ o.status = "cancelled"
          /\ o.updated_at = None
    /\ touched = {}

\* C28: a single update of a stored task whose payload sets no field
\* succeeds; afterwards the task has the time of the call as updated_at and
\* every other column as before, every other task is as before, and the call
\* returns the task.
C28_EmptyUpdateOnlyStamps ==
    [][ (/\ last'.op = "update"
         /\ DOMAIN last'.data = {}
         /\ last'.id \in Ids(store))
            => LET before == Row(store, last'.id)
                   after == [before EXCEPT !.updated_at = Some(now)]
               IN  /\ last'.result = "ok"
                   /\ store' = (store \ {before}) \cup {after}
                   /\ \A c \in Columns \ {"updated_at"} :
                         Row(store', last'.id)[c] = before[c]
                   /\ Row(store', last'.id).updated_at = Some(now)
                   /\ last'.ret.rows = {after}
      ]_vars

\* an update with no field set was accepted at time 1 for a task created at
\* time 0 with a description and never updated before: it is stamped 1 and
\* keeps its title and description
C28_Witness ==
    /\ last.op = "update"
    /\ DOMAIN last.data = {}
    /\ last.result = "ok"
    /\ now = 1
    /\ \E r \in store :
          /\ r.id = last.id
          /\ r.created_at = 0
          /\ r.updated_at = Some(1)
          /\ r.title = <<"b">>
          /\ r.description = Some(<<"d">>)
          /\ last.ret.rows = {r}

\* every table and index the forward script of m creates exists
InEffect(m, objects) == {m.up[k].name : k \in 1..Len(m.up)} \subseteq objects

\* the ledger and the schema agree: a version is recorded exactly when the
\* changes of its forward script are in effect
Agree(d) ==
    \A i \in 1..Len(migrations) :
        migrations[i].version \in d.migrations <=> InEffect(migrations[i], d.objects)

\* C29: after any migrate or rollback call, a call in which a script or the
\* ledger write failed part-way included, a version is recorded in table
\* migrations exactly when the changes of its forward script are in effect.
C29_LedgerMatchesSchema == Agree(database)

\* C29, for calls in which nothing fails: a migrate or rollback call whose
\* results report no failure, made when ledger and schema agree, leaves them
\* in agreement.
C29_AgreementKeptWithoutFailure ==
    [][ (/\ Agree(database)
         /\ \A k \in 1..Len(database'.results) : database'.results[k].status # "failed")
            => Agree(database')
      ]_vars

\* migrate on an empty database ran the whole script of 001 and then failed
\* to write the ledger: the table and its five indexes exist, no version is
\* recorded
C29_Witness ==
    /\ database.call.op = "migrate"
    /\ database.results = <<[version |-> <<0, 0, 1>>, status |-> "failed"]>>
    /\ InEffect(CreateTasksTable, database.objects)
    /\ database.migrations = {}

\* the versions recorded are those of the first n migrations of the list
LedgerIsPrefix(applied) ==
    \A i \in 1..Len(migrations) :
        migrations[i].version \in applied
            => \A j \in 1..i : migrations[j].version \in applied

\* the versions the results list reports with this status
Reported(results, status) ==
    {results[k].version : k \in {n \in 1..Len(results) : results[n].status = status}}

\* only the last entry of the results list can be a failure
FailureOnlyLast(results) ==
    \A k \in 1..(Len(results) - 1) : results[k].status # "failed"

\* the place of a version in the migration list
Place(version) == CHOOSE i \in 1..Len(migrations) : migrations[i].version = version

\* C30: from an empty ledger, after any sequence of migrate and rollback
\* calls with scripts that may fail, the versions recorded are a prefix of
\* the migration list.  Migrate goes through the versions not recorded in
\* list order, records each one it applies and stops at the first failure.
\* Rollback without a target (none or the empty string) handles only the
\* highest recorded version and removes it unless it fails.  Rollback with a
\* target goes through the recorded versions greater than the target from
\* the highest down, removes each one it rolls back and stops at the first
\* failure.
C30_LedgerIsPrefixOfList ==
    /\ []LedgerIsPrefix(database.migrations)
    /\ [][ LET applied == database.migrations
               results == database'.results
               target == database'.call.target
               pending == {i \in 1..Len(migrations) : migrations[i].version \notin applied}
           IN  /\ database'.call.op = "migrate" =>
                     /\ Len(results) <= Cardinality(pending)
                     /\ \A k \in 1..Len(results) :
                           \E i \in pending :
                               /\ migrations[i].version = results[k].version
                               /\ Cardinality({j \in pending : j < i}) = k - 1
                     /\ FailureOnlyLast(results)
                     /\ Reported(results, "failed") = {} => Len(results) = Cardinality(pending)
                     /\ database'.migrations = applied \cup Reported(results, "success")
               /\ (database'.call.op = "rollback" /\ (target = None \/ target = Some(<<>>))) =>
                     IF applied = {}
                     THEN results = <<>> /\ database'.migrations = applied
                     ELSE /\ Len(results) = 1
                          /\ results[1].version \in applied
                          /\ \A v \in applied : Place(v) <= Place(results[1].version)
                          /\ database'.migrations
                                = applied \ Reported(results, "rolled_back")
               /\ (database'.call.op = "rollback" /\ target # None /\ target # Some(<<>>)) =>
                     LET wanted == {v \in applied : StrGreater(v, target[1])}
                     IN  /\ \A k \in 1..Len(results) : results[k].version \in wanted
                         /\ \A k \in 1..(Len(results) - 1) :
                               Place(results[k].version) > Place(results[k + 1].version)
                         /\ Len(results) >= 1 =>
                               \A v \in wanted : Place(v) <= Place(results[1].version)
                         /\ FailureOnlyLast(results)
                         /\ Reported(results, "failed") = {}
                               => {results[k].version : k \in 1..Len(results)} = wanted
                         /\ database'.migrations
                               = applied \ Reported(results, "rolled_back")
         ]_vars

\* with both versions recorded, a rollback to target "000" rolled back 002
\* and then failed on 001: 001 alone is still recorded
C30_Witness ==
    /\ database.call = [op |-> "rollback", target |-> Some(<<0, 0, 0>>)]
    /\ database.results = <<[version |-> <<0, 0, 2>>, status |-> "rolled_back"],
                            [version |-> <<0, 0, 1>>, status |-> "failed"]>>
    /\ database.migrations = {<<0, 0, 1>>}

====
